---- MODULE Spec2Model ----
(***************************************************************************)
(* Model of the package commands of the fission CLI (pkg update, pkg       *)
(* rebuild) against the remote control-plane store.  Every CLI invocation  *)
(* is a process; each remote call of a handler is one atomic step on the   *)
(* store, and the local code between two remote calls belongs to the step  *)
(* of the call that follows it.                                            *)
(***************************************************************************)
EXTENDS Integers, Sequences, FiniteSets, TLC

\* Number of function records the store may hold initially.
MaxFns == 2

\* ------------------------------------------------------------------ values

NamespaceDefault == "default"
Namespaces == {"default", "ns2"}
EnvNames == {"e1", "e2"}
BuildCmds == {"b1"}
PkgNames == {"p1"}
FnNames == {<<"f", i>> : i \in 1..MaxFns}
Procs == {"cli1", "cli2"}

BuildStatusPending == "pending"
BuildStatusRunning == "running"
BuildStatusSucceeded == "succeeded"
BuildStatusFailed == "failed"
BuildStatusNone == "none"
BuildStatuses ==
    {BuildStatusPending, BuildStatusRunning, BuildStatusSucceeded,
     BuildStatusFailed, BuildStatusNone}

ArchiveTypeLiteral == "literal"
ArchiveTypeUrl == "url"
EmptyArchive == [Type |-> "", Literal |-> <<>>, URL |-> <<>>, Checksum |-> <<>>]

\* A flag the caller did not give on the command line.
Unset == "<unset>"

\* ------------------------------------------------------------ local files

\* Sizes are in units in which the literal limit (256 KiB in the program) is 2.
ArchiveLiteralSizeLimit == 2

LocalFiles ==
    ("a.py" :> [path |-> "a.py", size |-> 1, zip |-> FALSE, data |-> <<"a.py">>]) @@
    ("d.zip" :> [path |-> "d.zip", size |-> 2, zip |-> TRUE, data |-> <<"d.zip">>])

\* The inputs that start with "http://" or "https://", and what a GET of
\* each returns.
HttpInputs == {"http://u"}
RemoteFiles ==
    ("http://u" :> [path |-> "tmp/uuid", size |-> 3, zip |-> TRUE, data |-> <<"u.zip">>])

HasHttpPrefix(path) == path \in HttpInputs

SrcInputs == {<<>>, <<"a.py">>}
DeployInputs == {<<>>, <<"d.zip">>, <<"nomatch*">>}

\* utils.FindAllGlobs on one pattern: the files it matches.
FindAllGlobs(path) == IF path \in DOMAIN LocalFiles THEN <<path>> ELSE <<>>

RECURSIVE FindAll(_)
FindAll(paths) ==
    IF paths = <<>> THEN <<>>
    ELSE FindAllGlobs(Head(paths)) \o FindAll(Tail(paths))

\* The file at a path; a path that starts with "http://" is no zip file.
FileAt(path) ==
    IF path \in DOMAIN LocalFiles THEN LocalFiles[path]
    ELSE [path |-> path, size |-> 0, zip |-> FALSE, data |-> <<>>]

RECURSIVE SumSize(_)
SumSize(files) ==
    IF files = <<>> THEN 0
    ELSE LocalFiles[Head(files)].size + SumSize(Tail(files))

RECURSIVE CatData(_)
CatData(files) ==
    IF files = <<>> THEN <<>>
    ELSE LocalFiles[Head(files)].data \o CatData(Tail(files))

\* utils.MakeArchive: a new zip file in the temporary directory holding the
\* files its inputs match.
MakeArchive(files) ==
    [path |-> "tmp/archive", size |-> SumSize(files), zip |-> TRUE,
     data |-> <<"zip">> \o CatData(files)]

\* Variant of makeArchiveFileIfNeeded: noZip also applies to several files
\* (the first is returned).
makeArchiveFileIfNeededNoZipAlways(archiveInput, noZip) ==
    LET files == FindAll(archiveInput) IN
    IF Len(files) >= 1 /\ (FileAt(files[1]).zip \/ noZip)
    THEN FileAt(files[1])
    ELSE MakeArchive(files)

makeArchiveFileIfNeeded(archiveInput, noZip) ==
    LET files == FindAll(archiveInput) IN
    IF Len(files) = 1 /\ (FileAt(files[1]).zip \/ noZip)
    THEN FileAt(files[1])
    ELSE IF Len(files) = 1 /\ HasHttpPrefix(files[1])
    THEN FileAt(files[1])
    ELSE MakeArchive(files)

\* DownloadToTempFile: a temporary file with the content of the URL.
DownloadToTempFile(fileUrl) == RemoteFiles[fileUrl]

\* The file UploadArchive works on: a URL is downloaded first.
LocalCopy(file) ==
    IF HasHttpPrefix(file.path) THEN DownloadToTempFile(file.path) ELSE file

\* Variant of UploadArchive: an uploaded file also travels in the archive.
UploadArchiveWithBytes(file) ==
    IF LocalCopy(file).size < ArchiveLiteralSizeLimit
    THEN [Type |-> ArchiveTypeLiteral, Literal |-> LocalCopy(file).data,
          URL |-> <<>>, Checksum |-> <<>>]
    ELSE [Type |-> ArchiveTypeUrl, Literal |-> LocalCopy(file).data,
          URL |-> <<"storagesvc">> \o LocalCopy(file).data,
          Checksum |-> <<"sha256">> \o LocalCopy(file).data]

\* Variant of UploadArchive: a file of exactly the limit is still a literal.
UploadArchiveAtLimit(file) ==
    IF LocalCopy(file).size <= ArchiveLiteralSizeLimit
    THEN [Type |-> ArchiveTypeLiteral, Literal |-> LocalCopy(file).data,
          URL |-> <<>>, Checksum |-> <<>>]
    ELSE [Type |-> ArchiveTypeUrl, Literal |-> <<>>,
          URL |-> <<"storagesvc">> \o LocalCopy(file).data,
          Checksum |-> <<"sha256">> \o LocalCopy(file).data]

UploadArchive(file) ==
    IF LocalCopy(file).size < ArchiveLiteralSizeLimit
    THEN [Type |-> ArchiveTypeLiteral, Literal |-> LocalCopy(file).data,
          URL |-> <<>>, Checksum |-> <<>>]
    ELSE [Type |-> ArchiveTypeUrl, Literal |-> <<>>,
          URL |-> <<"storagesvc">> \o LocalCopy(file).data,
          Checksum |-> <<"sha256">> \o LocalCopy(file).data]

\* createArchive ends the process (log.Fatal) when an input that is no URL
\* matches no file.
createArchiveFatal(includeFiles) ==
    \E i \in 1..Len(includeFiles) :
        ~HasHttpPrefix(includeFiles[i]) /\ FindAllGlobs(includeFiles[i]) = <<>>

createArchive(includeFiles, noZip) ==
    UploadArchive(makeArchiveFileIfNeeded(includeFiles, noZip))

\* What that call of UploadArchive sends to the storage service: the file's
\* content, unless the file is small enough to travel inside the archive.
Uploaded(includeFiles, noZip) ==
    LET file == LocalCopy(makeArchiveFileIfNeeded(includeFiles, noZip)) IN
    IF file.size < ArchiveLiteralSizeLimit THEN {} ELSE {file.data}

\* createArchive when asked for no files is not called at all.
UploadedIfAny(includeFiles, noZip) ==
    IF Len(includeFiles) > 0 THEN Uploaded(includeFiles, noZip) ELSE {}

\* ------------------------------------------------------------------ state

VARIABLES
    packages,    \* store: <<namespace, name>> -> Package
    functions,   \* store: function name -> Function
    lastRV,      \* store: last resource version handed out
    pc,          \* per CLI process: position in its handler
    cmd,         \* per CLI process: the sub-command it runs
    args,        \* per CLI process: its command-line flags
    pkg,         \* per CLI process: the package as PackageGet returned it (create: as built)
    call,        \* per CLI process: the arguments of its updatePackage call
    fnList,      \* per CLI process: the part of fnList still to be written
    newPkgMeta,  \* per CLI process: local variable newPkgMeta
    outcome,     \* per CLI process: "" while running, "ok", or the fatal message
    uploads,     \* storage service: the archive contents uploaded to it
    specs,       \* spec directory: the resources saved by spec.SpecSave, in order
    pkgList,     \* per CLI process: local variable pkgList of deleteOrphanPkgs
    pkgIdx,      \* per CLI process: position of the loop over pkgList
    deleteCalls, \* per CLI process: its calls of deletePackage and how they ended
    pkgRevisions, \* history: <<namespace, name, resourceVersion>> of every committed package revision
    output       \* per CLI process: what pkg getsrc / getdeploy wrote, or NoOutput

vars == <<packages, functions, lastRV, pc, cmd, args, pkg, call, fnList, newPkgMeta, outcome, uploads, specs, pkgList, pkgIdx, deleteCalls, pkgRevisions, output>>
store == <<packages, functions, lastRV>>
sweep == <<pkgList, pkgIdx, deleteCalls>>

Package(name, ns, rv, envName, envNs, buildcmd, src, dep, status, log) ==
    [Metadata |-> [Name |-> name, Namespace |-> ns, ResourceVersion |-> rv],
     Spec |-> [Environment |-> [Name |-> envName, Namespace |-> envNs],
               BuildCommand |-> buildcmd, Source |-> src, Deployment |-> dep],
     Status |-> [BuildStatus |-> status, BuildLog |-> log]]

Function(name, ns, rv, pkgName, pkgNs, pkgRV) ==
    [Metadata |-> [Name |-> name, Namespace |-> ns, ResourceVersion |-> rv],
     Package |-> [Name |-> pkgName, Namespace |-> pkgNs, ResourceVersion |-> pkgRV]]

\* Nothing written yet; the content is a sequence otherwise.
NoOutput == <<"<none>">>

NoMeta == [Name |-> "", Namespace |-> "", ResourceVersion |-> 0]
NoPackage == Package("", "", 0, "", "", "", EmptyArchive, EmptyArchive, "", "")
NoArgs ==
    [name |-> "", pkgNamespace |-> NamespaceDefault, force |-> FALSE, env |-> "",
     envNamespace |-> Unset, src |-> <<>>, deploy |-> <<>>, buildcmd |-> "",
     orphan |-> FALSE]

OldSource ==
    [Type |-> ArchiveTypeLiteral, Literal |-> <<"old.py">>, URL |-> <<>>, Checksum |-> <<>>]
OldDeployment ==
    [Type |-> ArchiveTypeUrl, Literal |-> <<>>, URL |-> <<"storagesvc", "old.zip">>,
     Checksum |-> <<"sha256", "old.zip">>]
BuiltDeployment ==
    [Type |-> ArchiveTypeUrl, Literal |-> <<>>, URL |-> <<"storagesvc", "built">>,
     Checksum |-> <<"sha256", "built">>]

\* c.String("envNamespace"): the flag's default is metav1.NamespaceDefault.
envNamespaceFlag(a) == IF a.envNamespace = Unset THEN NamespaceDefault ELSE a.envNamespace

\* ------------------------------------------------------------------ store

KeyOf(x) == <<x.Metadata.Namespace, x.Metadata.Name>>
PackageGet(ns, name) == packages[<<ns, name>>]
PackageExists(ns, name) == <<ns, name>> \in DOMAIN packages

\* The store accepts a write only against the revision the writer read.
PackageUpdateAccepted(p) ==
    LET key == <<p.Metadata.Namespace, p.Metadata.Name>> IN
    /\ key \in DOMAIN packages
    /\ packages[key].Metadata.ResourceVersion = p.Metadata.ResourceVersion

FunctionUpdateAccepted(fn) ==
    /\ fn.Metadata.Name \in DOMAIN functions
    /\ functions[fn.Metadata.Name].Metadata.ResourceVersion = fn.Metadata.ResourceVersion

RECURSIVE SeqOfSet(_)
SeqOfSet(S) ==
    IF S = {} THEN <<>>
    ELSE LET x == CHOOSE y \in S : \A z \in S : y[2] <= z[2]
         IN <<x>> \o SeqOfSet(S \ {x})

\* client.FunctionList(ns): the functions of one namespace, in name order.
FunctionList(ns) ==
    LET names == {n \in DOMAIN functions : functions[n].Metadata.Namespace = ns}
        order == SeqOfSet(names)
    IN [i \in 1..Len(order) |-> functions[order[i]]]

fnMatches(fn, pkgName, pkgNamespace) == fn.Package.Name = pkgName

getFunctionsByPackage(pkgName, pkgNamespace) ==
    LET fnListAll == FunctionList(pkgNamespace)
        F[i \in 0..Len(fnListAll)] ==
            IF i = 0 THEN <<>>
            ELSE IF fnMatches(fnListAll[i], pkgName, pkgNamespace)
                 THEN Append(F[i - 1], fnListAll[i])
                 ELSE F[i - 1]
    IN F[Len(fnListAll)]

\* The functions that reference package (ns, name) by name and namespace.
Referencing(fns, ns, name) ==
    {n \in DOMAIN fns : fns[n].Package.Name = name /\ fns[n].Package.Namespace = ns}

\* ---------------------------------------------------------- updatePackage

\* Variants of needToBuild: a deployment archive counts as a trigger; the
\* build command is not a trigger; the source archive is not a trigger.
needToBuildDeployCounts(envName, envNamespace, srcArchiveFiles, deployArchiveFiles, buildcmd) ==
    \/ Len(envName) > 0
    \/ Len(envNamespace) > 0
    \/ Len(buildcmd) > 0
    \/ Len(srcArchiveFiles) > 0
    \/ Len(deployArchiveFiles) > 0

needToBuildNoBuildcmd(envName, envNamespace, srcArchiveFiles, deployArchiveFiles, buildcmd) ==
    IF Len(deployArchiveFiles) > 0 THEN FALSE
    ELSE \/ Len(envName) > 0
         \/ Len(envNamespace) > 0
         \/ Len(srcArchiveFiles) > 0

needToBuildNoSrc(envName, envNamespace, srcArchiveFiles, deployArchiveFiles, buildcmd) ==
    IF Len(deployArchiveFiles) > 0 THEN FALSE
    ELSE \/ Len(envName) > 0
         \/ Len(envNamespace) > 0
         \/ Len(buildcmd) > 0

needToBuild(envName, envNamespace, srcArchiveFiles, deployArchiveFiles, buildcmd) ==
    IF Len(deployArchiveFiles) > 0 THEN FALSE
    ELSE \/ Len(envName) > 0
         \/ Len(envNamespace) > 0
         \/ Len(buildcmd) > 0
         \/ Len(srcArchiveFiles) > 0

\* Variants of updatePackageObject: forceRebuild is ignored; the build command
\* is assigned even when the argument is empty.
updatePackageObjectNoForce(pkg0, envName, envNamespace, srcArchiveFiles, deployArchiveFiles, buildcmd, forceRebuild, noZip) ==
    LET a == IF Len(envName) > 0
             THEN [pkg0 EXCEPT !.Spec.Environment.Name = envName] ELSE pkg0
        b == IF Len(envNamespace) > 0
             THEN [a EXCEPT !.Spec.Environment.Namespace = envNamespace] ELSE a
        c == IF Len(buildcmd) > 0
             THEN [b EXCEPT !.Spec.BuildCommand = buildcmd] ELSE b
        d == IF Len(srcArchiveFiles) > 0
             THEN [c EXCEPT !.Spec.Source = createArchive(srcArchiveFiles, FALSE)] ELSE c
        e == IF Len(deployArchiveFiles) > 0
             THEN [d EXCEPT !.Spec.Deployment = createArchive(deployArchiveFiles, noZip)]
             ELSE d
    IN IF needToBuild(envName, envNamespace, srcArchiveFiles, deployArchiveFiles, buildcmd)
       THEN [e EXCEPT !.Status = [BuildStatus |-> BuildStatusPending, BuildLog |-> ""]]
       ELSE e

updatePackageObjectAlwaysBuildcmd(pkg0, envName, envNamespace, srcArchiveFiles, deployArchiveFiles, buildcmd, forceRebuild, noZip) ==
    LET a == IF Len(envName) > 0
             THEN [pkg0 EXCEPT !.Spec.Environment.Name = envName] ELSE pkg0
        b == IF Len(envNamespace) > 0
             THEN [a EXCEPT !.Spec.Environment.Namespace = envNamespace] ELSE a
        c == [b EXCEPT !.Spec.BuildCommand = buildcmd]
        d == IF Len(srcArchiveFiles) > 0
             THEN [c EXCEPT !.Spec.Source = createArchive(srcArchiveFiles, FALSE)] ELSE c
        e == IF Len(deployArchiveFiles) > 0
             THEN [d EXCEPT !.Spec.Deployment = createArchive(deployArchiveFiles, noZip)]
             ELSE d
    IN IF needToBuild(envName, envNamespace, srcArchiveFiles, deployArchiveFiles, buildcmd)
          \/ forceRebuild
       THEN [e EXCEPT !.Status = [BuildStatus |-> BuildStatusPending, BuildLog |-> ""]]
       ELSE e

\* The package object as updatePackage leaves it before the write.
\* Variant of updatePackageObject: only the build status is set, the build
\* log stays.
updatePackageObjectKeepsLog(pkg0, envName, envNamespace, srcArchiveFiles, deployArchiveFiles, buildcmd, forceRebuild, noZip) ==
    LET a == IF Len(envName) > 0
             THEN [pkg0 EXCEPT !.Spec.Environment.Name = envName] ELSE pkg0
        b == IF Len(envNamespace) > 0
             THEN [a EXCEPT !.Spec.Environment.Namespace = envNamespace] ELSE a
        c == IF Len(buildcmd) > 0
             THEN [b EXCEPT !.Spec.BuildCommand = buildcmd] ELSE b
        d == IF Len(srcArchiveFiles) > 0
             THEN [c EXCEPT !.Spec.Source = createArchive(srcArchiveFiles, FALSE)] ELSE c
        e == IF Len(deployArchiveFiles) > 0
             THEN [d EXCEPT !.Spec.Deployment = createArchive(deployArchiveFiles, noZip)]
             ELSE d
    IN IF needToBuild(envName, envNamespace, srcArchiveFiles, deployArchiveFiles, buildcmd)
          \/ forceRebuild
       THEN [e EXCEPT !.Status.BuildStatus = BuildStatusPending]
       ELSE e

\* Variant of updatePackageObject: a supplied deployment archive marks the
\* package as built.
updatePackageObjectDeploySucceeded(pkg0, envName, envNamespace, srcArchiveFiles, deployArchiveFiles, buildcmd, forceRebuild, noZip) ==
    LET a == IF Len(envName) > 0
             THEN [pkg0 EXCEPT !.Spec.Environment.Name = envName] ELSE pkg0
        b == IF Len(envNamespace) > 0
             THEN [a EXCEPT !.Spec.Environment.Namespace = envNamespace] ELSE a
        c == IF Len(buildcmd) > 0
             THEN [b EXCEPT !.Spec.BuildCommand = buildcmd] ELSE b
        d == IF Len(srcArchiveFiles) > 0
             THEN [c EXCEPT !.Spec.Source = createArchive(srcArchiveFiles, FALSE)] ELSE c
        e == IF Len(deployArchiveFiles) > 0
             THEN [d EXCEPT !.Spec.Deployment = createArchive(deployArchiveFiles, noZip),
                            !.Status.BuildStatus = BuildStatusSucceeded]
             ELSE d
    IN IF needToBuild(envName, envNamespace, srcArchiveFiles, deployArchiveFiles, buildcmd)
          \/ forceRebuild
       THEN [e EXCEPT !.Status = [BuildStatus |-> BuildStatusPending, BuildLog |-> ""]]
       ELSE e

updatePackageObject(pkg0, envName, envNamespace, srcArchiveFiles, deployArchiveFiles, buildcmd, forceRebuild, noZip) ==
    LET a == IF Len(envName) > 0
             THEN [pkg0 EXCEPT !.Spec.Environment.Name = envName] ELSE pkg0
        b == IF Len(envNamespace) > 0
             THEN [a EXCEPT !.Spec.Environment.Namespace = envNamespace] ELSE a
        c == IF Len(buildcmd) > 0
             THEN [b EXCEPT !.Spec.BuildCommand = buildcmd] ELSE b
        d == IF Len(srcArchiveFiles) > 0
             THEN [c EXCEPT !.Spec.Source = createArchive(srcArchiveFiles, FALSE)] ELSE c
        e == IF Len(deployArchiveFiles) > 0
             THEN [d EXCEPT !.Spec.Deployment = createArchive(deployArchiveFiles, noZip)]
             ELSE d
    IN IF needToBuild(envName, envNamespace, srcArchiveFiles, deployArchiveFiles, buildcmd)
          \/ forceRebuild
       THEN [e EXCEPT !.Status = [BuildStatus |-> BuildStatusPending, BuildLog |-> ""]]
       ELSE e

\* pkgUpdate treats a flag that repeats the package's value as not given.
normEnvName(envName, p) ==
    IF Len(envName) > 0 /\ envName = p.Spec.Environment.Name THEN "" ELSE envName

normEnvNamespace(envNamespace, p) ==
    IF envNamespace = p.Spec.Environment.Namespace THEN "" ELSE envNamespace

\* The parameters of updatePackage.
Call(envName, envNamespace, srcArchiveFiles, deployArchiveFiles, buildcmd, forceRebuild, noZip) ==
    [envName |-> envName, envNamespace |-> envNamespace,
     srcArchiveFiles |-> srcArchiveFiles, deployArchiveFiles |-> deployArchiveFiles,
     buildcmd |-> buildcmd, forceRebuild |-> forceRebuild, noZip |-> noZip]

NoCall == Call("", "", <<>>, <<>>, "", FALSE, FALSE)

End(p, result) ==
    /\ pc' = [pc EXCEPT ![p] = "done"]
    /\ outcome' = [outcome EXCEPT ![p] = result]

\* Variants of updatePackage: a write is accepted whatever revision the
\* writer read, as if a rejected write were repeated on the stored revision;
\* the write carries the new spec but not the new status.
updatePackageRetry(p) ==
    /\ pc[p] = "updatePackage"
    /\ LET c == call[p] IN
       IF createArchiveFatal(c.srcArchiveFiles) \/ createArchiveFatal(c.deployArchiveFiles)
       THEN /\ End(p, "Error finding any files")
            /\ uploads' = IF createArchiveFatal(c.srcArchiveFiles) THEN uploads
                          ELSE uploads \cup UploadedIfAny(c.srcArchiveFiles, FALSE)
            /\ UNCHANGED <<store, newPkgMeta, pkgRevisions>>
       ELSE LET obj == updatePackageObject(pkg[p], c.envName, c.envNamespace,
                           c.srcArchiveFiles, c.deployArchiveFiles, c.buildcmd,
                           c.forceRebuild, c.noZip)
                key == <<obj.Metadata.Namespace, obj.Metadata.Name>>
            IN /\ uploads' = uploads \cup UploadedIfAny(c.srcArchiveFiles, FALSE)
                                     \cup UploadedIfAny(c.deployArchiveFiles, c.noZip)
               /\ IF key \in DOMAIN packages
                  THEN /\ lastRV' = lastRV + 1
                       /\ packages' = [packages EXCEPT
                              ![key] = [obj EXCEPT !.Metadata.ResourceVersion = lastRV + 1]]
                       /\ pkgRevisions' = pkgRevisions \cup {<<key[1], key[2], lastRV + 1>>}
                       /\ newPkgMeta' = [newPkgMeta EXCEPT
                              ![p] = [obj.Metadata EXCEPT !.ResourceVersion = lastRV + 1]]
                       /\ IF cmd[p] = "update"
                          THEN /\ pc' = [pc EXCEPT ![p] = "fanout"]
                               /\ UNCHANGED outcome
                          ELSE End(p, "ok")
                  ELSE /\ End(p, "update package")
                       /\ UNCHANGED <<packages, lastRV, newPkgMeta, pkgRevisions>>
    /\ UNCHANGED <<functions, cmd, args, pkg, call, fnList, specs, sweep, output>>

updatePackageSpecOnly(p) ==
    /\ pc[p] = "updatePackage"
    /\ LET c == call[p] IN
       IF createArchiveFatal(c.srcArchiveFiles) \/ createArchiveFatal(c.deployArchiveFiles)
       THEN /\ End(p, "Error finding any files")
            /\ uploads' = IF createArchiveFatal(c.srcArchiveFiles) THEN uploads
                          ELSE uploads \cup UploadedIfAny(c.srcArchiveFiles, FALSE)
            /\ UNCHANGED <<store, newPkgMeta, pkgRevisions>>
       ELSE LET obj == updatePackageObject(pkg[p], c.envName, c.envNamespace,
                           c.srcArchiveFiles, c.deployArchiveFiles, c.buildcmd,
                           c.forceRebuild, c.noZip)
                key == <<obj.Metadata.Namespace, obj.Metadata.Name>>
            IN /\ uploads' = uploads \cup UploadedIfAny(c.srcArchiveFiles, FALSE)
                                     \cup UploadedIfAny(c.deployArchiveFiles, c.noZip)
               /\ IF PackageUpdateAccepted(obj)
                  THEN /\ lastRV' = lastRV + 1
                       /\ packages' = [packages EXCEPT
                              ![key] = [obj EXCEPT !.Metadata.ResourceVersion = lastRV + 1,
                                                !.Status = pkg[p].Status]]
                       /\ pkgRevisions' = pkgRevisions \cup {<<key[1], key[2], lastRV + 1>>}
                       /\ newPkgMeta' = [newPkgMeta EXCEPT
                              ![p] = [obj.Metadata EXCEPT !.ResourceVersion = lastRV + 1]]
                       /\ IF cmd[p] = "update"
                          THEN /\ pc' = [pc EXCEPT ![p] = "fanout"]
                               /\ UNCHANGED outcome
                          ELSE End(p, "ok")
                  ELSE /\ End(p, "update package")
                       /\ UNCHANGED <<packages, lastRV, newPkgMeta, pkgRevisions>>
    /\ UNCHANGED <<functions, cmd, args, pkg, call, fnList, specs, sweep, output>>

\* updatePackage: build the archives, set the fields, decide the status and
\* write the package.
updatePackage(p) ==
    /\ pc[p] = "updatePackage"
    /\ LET c == call[p] IN
       IF createArchiveFatal(c.srcArchiveFiles) \/ createArchiveFatal(c.deployArchiveFiles)
       THEN /\ End(p, "Error finding any files")
            /\ uploads' = IF createArchiveFatal(c.srcArchiveFiles) THEN uploads
                          ELSE uploads \cup UploadedIfAny(c.srcArchiveFiles, FALSE)
            /\ UNCHANGED <<store, newPkgMeta, pkgRevisions>>
       ELSE LET obj == updatePackageObject(pkg[p], c.envName, c.envNamespace,
                           c.srcArchiveFiles, c.deployArchiveFiles, c.buildcmd,
                           c.forceRebuild, c.noZip)
                key == <<obj.Metadata.Namespace, obj.Metadata.Name>>
            IN /\ uploads' = uploads \cup UploadedIfAny(c.srcArchiveFiles, FALSE)
                                     \cup UploadedIfAny(c.deployArchiveFiles, c.noZip)
               /\ IF PackageUpdateAccepted(obj)
                  THEN /\ lastRV' = lastRV + 1
                       /\ packages' = [packages EXCEPT
                              ![key] = [obj EXCEPT !.Metadata.ResourceVersion = lastRV + 1]]
                       /\ pkgRevisions' = pkgRevisions \cup {<<key[1], key[2], lastRV + 1>>}
                       /\ newPkgMeta' = [newPkgMeta EXCEPT
                              ![p] = [obj.Metadata EXCEPT !.ResourceVersion = lastRV + 1]]
                       /\ IF cmd[p] = "update"
                          THEN /\ pc' = [pc EXCEPT ![p] = "fanout"]
                               /\ UNCHANGED outcome
                          ELSE End(p, "ok")
                  ELSE /\ End(p, "update package")
                       /\ UNCHANGED <<packages, lastRV, newPkgMeta, pkgRevisions>>
    /\ UNCHANGED <<functions, cmd, args, pkg, call, fnList, specs, sweep, output>>

\* ---------------------------------------------------------------- pkgUpdate

UpdateArgs ==
    {NoArgs} \cup
    [name : PkgNames, pkgNamespace : Namespaces, force : BOOLEAN,
     env : {""} \cup EnvNames, envNamespace : {Unset} \cup Namespaces,
     src : SrcInputs, deploy : DeployInputs, buildcmd : {""} \cup BuildCmds,
     orphan : {FALSE}]

\* pkgUpdate up to its call of updatePackage: check the flags, read the
\* package, list the functions that use it, apply the --force guard.
pkgUpdateWith(p, flags) ==
    /\ pc[p] = "idle"
    /\ \E a \in flags :
        /\ cmd' = [cmd EXCEPT ![p] = "update"]
        /\ args' = [args EXCEPT ![p] = a]
        /\ IF Len(a.name) = 0
           THEN End(p, "Need --name argument.") /\ UNCHANGED <<pkg, call, fnList>>
           ELSE IF Len(a.src) > 0 /\ Len(a.deploy) > 0
           THEN /\ End(p, "Need either of --src or --deploy and not both arguments.")
                /\ UNCHANGED <<pkg, call, fnList>>
           ELSE IF Len(a.src) = 0 /\ Len(a.deploy) = 0
                   /\ Len(a.env) = 0 /\ Len(a.buildcmd) = 0
           THEN /\ End(p, "Need --env or --src or --deploy or --buildcmd argument.")
                /\ UNCHANGED <<pkg, call, fnList>>
           ELSE IF ~PackageExists(a.pkgNamespace, a.name)
           THEN End(p, "get package") /\ UNCHANGED <<pkg, call, fnList>>
           ELSE LET got == PackageGet(a.pkgNamespace, a.name)
                    fns == getFunctionsByPackage(got.Metadata.Name, got.Metadata.Namespace)
                IN /\ pkg' = [pkg EXCEPT ![p] = got]
                   /\ call' = [call EXCEPT ![p] =
                          Call(normEnvName(a.env, got),
                               normEnvNamespace(envNamespaceFlag(a), got),
                               a.src, a.deploy, a.buildcmd, FALSE, FALSE)]
                   /\ fnList' = [fnList EXCEPT ![p] = fns]
                   /\ IF ~a.force /\ Len(fns) > 1
                      THEN End(p, "Package is used by multiple functions, use --force to force update")
                      ELSE /\ pc' = [pc EXCEPT ![p] = "updatePackage"]
                           /\ UNCHANGED outcome
    /\ UNCHANGED <<store, newPkgMeta, uploads, specs, sweep, output, pkgRevisions>>

pkgUpdate(p) == pkgUpdateWith(p, UpdateArgs)

\* Variants of pkgUpdateFunction: the loop over fnList may start before the
\* package write; a failed function write puts the package back as read.
pkgUpdateFunctionEarly(p) ==
    /\ pc[p] \in {"updatePackage", "fanout"}
    /\ fnList[p] # <<>>
    /\ LET fn == [Head(fnList[p]) EXCEPT
                     !.Package.ResourceVersion = newPkgMeta[p].ResourceVersion]
       IN IF FunctionUpdateAccepted(fn)
          THEN /\ lastRV' = lastRV + 1
               /\ functions' = [functions EXCEPT
                      ![fn.Metadata.Name] = [fn EXCEPT !.Metadata.ResourceVersion = lastRV + 1]]
               /\ fnList' = [fnList EXCEPT ![p] = Tail(fnList[p])]
               /\ UNCHANGED <<pc, outcome>>
          ELSE /\ End(p, "update function")
               /\ UNCHANGED <<functions, lastRV, fnList>>
    /\ UNCHANGED <<packages, cmd, args, pkg, call, newPkgMeta, uploads, specs, sweep, output, pkgRevisions>>

pkgUpdateFunctionRollback(p) ==
    /\ pc[p] = "fanout"
    /\ fnList[p] # <<>>
    /\ LET fn == [Head(fnList[p]) EXCEPT
                     !.Package.ResourceVersion = newPkgMeta[p].ResourceVersion]
       IN IF FunctionUpdateAccepted(fn)
          THEN /\ lastRV' = lastRV + 1
               /\ functions' = [functions EXCEPT
                      ![fn.Metadata.Name] = [fn EXCEPT !.Metadata.ResourceVersion = lastRV + 1]]
               /\ fnList' = [fnList EXCEPT ![p] = Tail(fnList[p])]
               /\ UNCHANGED <<pc, outcome>>
          ELSE /\ End(p, "update function")
               /\ UNCHANGED <<functions, lastRV, fnList>>
    /\ packages' = IF FunctionUpdateAccepted([Head(fnList[p]) EXCEPT
                          !.Package.ResourceVersion = newPkgMeta[p].ResourceVersion])
                   THEN packages
                   ELSE [packages EXCEPT ![KeyOf(pkg[p])] = pkg[p]]
    /\ UNCHANGED <<cmd, args, pkg, call, newPkgMeta, uploads, specs, sweep, output, pkgRevisions>>

\* One round of the loop over fnList: write the next function with the new
\* package resource version.
pkgUpdateFunction(p) ==
    /\ pc[p] = "fanout"
    /\ fnList[p] # <<>>
    /\ LET fn == [Head(fnList[p]) EXCEPT
                     !.Package.ResourceVersion = newPkgMeta[p].ResourceVersion]
       IN IF FunctionUpdateAccepted(fn)
          THEN /\ lastRV' = lastRV + 1
               /\ functions' = [functions EXCEPT
                      ![fn.Metadata.Name] = [fn EXCEPT !.Metadata.ResourceVersion = lastRV + 1]]
               /\ fnList' = [fnList EXCEPT ![p] = Tail(fnList[p])]
               /\ UNCHANGED <<pc, outcome>>
          ELSE /\ End(p, "update function")
               /\ UNCHANGED <<functions, lastRV, fnList>>
    /\ UNCHANGED <<packages, cmd, args, pkg, call, newPkgMeta, uploads, specs, sweep, output, pkgRevisions>>

\* After the loop: "Package updated", return nil.
pkgUpdateReturn(p) ==
    /\ pc[p] = "fanout"
    /\ fnList[p] = <<>>
    /\ End(p, "ok")
    /\ UNCHANGED <<store, cmd, args, pkg, call, fnList, newPkgMeta, uploads, specs, sweep, output, pkgRevisions>>

\* --------------------------------------------------------------- pkgRebuild

RebuildArgs ==
    {[NoArgs EXCEPT !.name = n, !.pkgNamespace = ns] : n \in {""} \cup PkgNames, ns \in Namespaces}

\* Variant of rebuildAllowed: only a succeeded package is refused.
rebuildAllowedNotSucceeded(p) == p.Status.BuildStatus # BuildStatusSucceeded

rebuildAllowed(p) == p.Status.BuildStatus = BuildStatusFailed

\* pkgRebuild up to its call of updatePackage.
pkgRebuild(p) ==
    /\ pc[p] = "idle"
    /\ \E a \in RebuildArgs :
        /\ cmd' = [cmd EXCEPT ![p] = "rebuild"]
        /\ args' = [args EXCEPT ![p] = a]
        /\ IF Len(a.name) = 0
           THEN End(p, "Need name of package, use --name") /\ UNCHANGED <<pkg, call>>
           ELSE IF ~PackageExists(a.pkgNamespace, a.name)
           THEN End(p, "find package") /\ UNCHANGED <<pkg, call>>
           ELSE LET got == PackageGet(a.pkgNamespace, a.name)
                IN /\ pkg' = [pkg EXCEPT ![p] = got]
                   /\ IF ~rebuildAllowed(got)
                      THEN End(p, "Package is not in failed state.") /\ UNCHANGED call
                      ELSE /\ pc' = [pc EXCEPT ![p] = "updatePackage"]
                           /\ call' = [call EXCEPT ![p] =
                                  Call("", "", <<>>, <<>>, "", TRUE, FALSE)]
                           /\ UNCHANGED outcome
    /\ UNCHANGED <<store, fnList, newPkgMeta, uploads, specs, sweep, output, pkgRevisions>>

\* ------------------------------------------------------------ build service

\* The external build service picks up a pending package ...
BuildStart(key) ==
    /\ key \in DOMAIN packages
    /\ packages[key].Status.BuildStatus = BuildStatusPending
    /\ lastRV' = lastRV + 1
    /\ packages' = [packages EXCEPT
           ![key] = [@ EXCEPT !.Status.BuildStatus = BuildStatusRunning,
                              !.Metadata.ResourceVersion = lastRV + 1]]
    /\ pkgRevisions' = pkgRevisions \cup {<<key[1], key[2], lastRV + 1>>}
    /\ UNCHANGED <<functions, pc, cmd, args, pkg, call, fnList, newPkgMeta, outcome, uploads, specs, sweep, output>>

\* ... and ends the build with a deployment archive or with a failure.
BuildFinish(key) ==
    /\ key \in DOMAIN packages
    /\ packages[key].Status.BuildStatus = BuildStatusRunning
    /\ lastRV' = lastRV + 1
    /\ \/ /\ packages' = [packages EXCEPT
                 ![key] = [@ EXCEPT !.Status = [BuildStatus |-> BuildStatusSucceeded,
                                                BuildLog |-> "build ok"],
                                    !.Spec.Deployment = BuiltDeployment,
                                    !.Metadata.ResourceVersion = lastRV + 1]]
          /\ uploads' = uploads \cup {<<"built">>}
       \/ /\ packages' = [packages EXCEPT
                 ![key] = [@ EXCEPT !.Status = [BuildStatus |-> BuildStatusFailed,
                                                BuildLog |-> "build failed"],
                                    !.Metadata.ResourceVersion = lastRV + 1]]
          /\ UNCHANGED uploads
    /\ pkgRevisions' = pkgRevisions \cup {<<key[1], key[2], lastRV + 1>>}
    /\ UNCHANGED <<functions, pc, cmd, args, pkg, call, fnList, newPkgMeta, outcome, specs, sweep, output>>

\* ------------------------------------------------------ other store clients

\* Another client of the store creates a function in the namespace of an
\* existing package and points it at that package's current revision.
FunctionCreate(n, key) ==
    /\ n \in FnNames \ DOMAIN functions
    /\ key \in DOMAIN packages
    /\ lastRV' = lastRV + 1
    /\ functions' = (n :> Function(n, key[1], lastRV + 1, key[2], key[1],
                                   packages[key].Metadata.ResourceVersion)) @@ functions
    /\ UNCHANGED <<packages, pc, cmd, args, pkg, call, fnList, newPkgMeta, outcome, uploads, specs, sweep, output, pkgRevisions>>

\* ---------------------------------------------------------------- pkgDelete

\* The package names of the store, in the order in which it lists them.
PkgOrder == <<"p1", "p2", "p3">>

\* client.PackageList(ns): the packages of one namespace, in name order.
PackageList(ns) ==
    LET P[i \in 0..Len(PkgOrder)] ==
            IF i = 0 THEN <<>>
            ELSE IF PackageExists(ns, PkgOrder[i])
                 THEN Append(P[i - 1], PackageGet(ns, PkgOrder[i]))
                 ELSE P[i - 1]
    IN P[Len(PkgOrder)]

\* client.PackageDelete fails when the store holds no such package.
PackageDeleteAccepted(key) == key \in DOMAIN packages

DeleteGuardMsg == "Package is used by at least one function, use -f to force delete"

DeleteArgs ==
    {[NoArgs EXCEPT !.name = n, !.pkgNamespace = ns, !.force = f, !.orphan = o] :
        n \in {""} \cup {PkgOrder[i] : i \in 1..Len(PkgOrder)}, ns \in Namespaces,
        f \in BOOLEAN, o \in BOOLEAN}

\* The --force guard of pkgDelete.
deleteGuard(force, fns) == ~force /\ Len(fns) > 0

\* pkgDelete up to its call of deletePackage (by name) or up to the loop of
\* deleteOrphanPkgs (--orphan). A wrong combination of --name and --orphan
\* prints a message and returns nil.
pkgDelete(p) ==
    /\ pc[p] = "idle"
    /\ \E a \in DeleteArgs :
        /\ cmd' = [cmd EXCEPT ![p] = "delete"]
        /\ args' = [args EXCEPT ![p] = a]
        /\ IF (Len(a.name) = 0 /\ ~a.orphan) \/ (Len(a.name) # 0 /\ a.orphan)
           THEN End(p, "ok") /\ UNCHANGED <<pkg, fnList, pkgList, pkgIdx>>
           ELSE IF Len(a.name) # 0
           THEN IF ~PackageExists(a.pkgNamespace, a.name)
                THEN End(p, "find package") /\ UNCHANGED <<pkg, fnList, pkgList, pkgIdx>>
                ELSE LET fns == getFunctionsByPackage(a.name, a.pkgNamespace)
                     IN /\ pkg' = [pkg EXCEPT ![p] = PackageGet(a.pkgNamespace, a.name)]
                        /\ fnList' = [fnList EXCEPT ![p] = fns]
                        /\ IF deleteGuard(a.force, fns)
                           THEN End(p, DeleteGuardMsg)
                           ELSE /\ pc' = [pc EXCEPT ![p] = "deletePackage"]
                                /\ UNCHANGED outcome
                        /\ UNCHANGED <<pkgList, pkgIdx>>
           ELSE /\ pkgList' = [pkgList EXCEPT ![p] = PackageList(a.pkgNamespace)]
                /\ pkgIdx' = [pkgIdx EXCEPT ![p] = 1]
                /\ pc' = [pc EXCEPT ![p] = "deleteOrphanPkgs"]
                /\ UNCHANGED <<pkg, fnList, outcome>>
    /\ UNCHANGED <<store, call, newPkgMeta, uploads, specs, output, deleteCalls, pkgRevisions>>

\* One round of the loop of deleteOrphanPkgs up to its call of deletePackage:
\* list the functions that use the next package.
deleteOrphanPkgs(p) ==
    /\ pc[p] = "deleteOrphanPkgs"
    /\ pkgIdx[p] <= Len(pkgList[p])
    /\ LET cur == pkgList[p][pkgIdx[p]]
           fns == getFunctionsByPackage(cur.Metadata.Name, args[p].pkgNamespace)
       IN /\ fnList' = [fnList EXCEPT ![p] = fns]
          /\ IF Len(fns) = 0
             THEN /\ pc' = [pc EXCEPT ![p] = "deletePackage"]
                  /\ UNCHANGED pkgIdx
             ELSE /\ pkgIdx' = [pkgIdx EXCEPT ![p] = pkgIdx[p] + 1]
                  /\ UNCHANGED pc
    /\ UNCHANGED <<store, cmd, args, pkg, call, newPkgMeta, outcome, uploads, specs, output, pkgList, deleteCalls, pkgRevisions>>

\* After the loop: deleteOrphanPkgs returns nil, "Orphan packages deleted".
deleteOrphanPkgsReturn(p) ==
    /\ pc[p] = "deleteOrphanPkgs"
    /\ pkgIdx[p] > Len(pkgList[p])
    /\ End(p, "ok")
    /\ UNCHANGED <<store, cmd, args, pkg, call, fnList, newPkgMeta, uploads, specs, sweep, output, pkgRevisions>>

\* The package that the pending call of deletePackage names.
deleteTarget(p) ==
    IF args[p].orphan THEN KeyOf(pkgList[p][pkgIdx[p]])
    ELSE <<args[p].pkgNamespace, args[p].name>>

\* Variant of deletePackage: the sweep goes on after a deletion that failed.
deletePackageBestEffort(p) ==
    /\ pc[p] = "deletePackage"
    /\ LET key == deleteTarget(p)
           ok == PackageDeleteAccepted(key)
       IN /\ deleteCalls' = [deleteCalls EXCEPT ![p] = Append(@, [key |-> key, ok |-> ok])]
          /\ packages' = IF ok THEN [k \in DOMAIN packages \ {key} |-> packages[k]]
                         ELSE packages
          /\ IF args[p].orphan
             THEN /\ pkgIdx' = [pkgIdx EXCEPT ![p] = pkgIdx[p] + 1]
                  /\ pc' = [pc EXCEPT ![p] = "deleteOrphanPkgs"]
                  /\ UNCHANGED outcome
             ELSE /\ End(p, IF ok THEN "ok" ELSE "delete package")
                  /\ UNCHANGED pkgIdx
    /\ UNCHANGED <<functions, lastRV, cmd, args, pkg, call, fnList, newPkgMeta, uploads, specs, output, pkgList, pkgRevisions>>

\* deletePackage and what its caller does with the result: pkgDelete returns
\* the error or prints "deleted"; deleteOrphanPkgs returns the error at once,
\* which ends the process in pkgDelete, or goes on with the next package.
deletePackage(p) ==
    /\ pc[p] = "deletePackage"
    /\ LET key == deleteTarget(p)
           ok == PackageDeleteAccepted(key)
       IN /\ deleteCalls' = [deleteCalls EXCEPT ![p] = Append(@, [key |-> key, ok |-> ok])]
          /\ packages' = IF ok THEN [k \in DOMAIN packages \ {key} |-> packages[k]]
                         ELSE packages
          /\ IF ~ok
             THEN /\ End(p, IF args[p].orphan THEN "error deleting orphan packages"
                            ELSE "delete package")
                  /\ UNCHANGED pkgIdx
             ELSE IF args[p].orphan
             THEN /\ pkgIdx' = [pkgIdx EXCEPT ![p] = pkgIdx[p] + 1]
                  /\ pc' = [pc EXCEPT ![p] = "deleteOrphanPkgs"]
                  /\ UNCHANGED outcome
             ELSE /\ End(p, "ok")
                  /\ UNCHANGED pkgIdx
    /\ UNCHANGED <<functions, lastRV, cmd, args, pkg, call, fnList, newPkgMeta, uploads, specs, output, pkgList, pkgRevisions>>

\* ------------------------------------------------------------ createPackage

\* uniuri.NewLen: a random suffix, one of two in the model.
Suffixes == {"r1", "r2"}

\* util.KubifyName on the file names of the model.
KubifyName(name) ==
    IF name = "a.py" THEN "a-py"
    ELSE IF name = "d.zip" THEN "d-zip"
    ELSE "file"

archiveName(includedFiles, suffix) == KubifyName(includedFiles[1]) \o "-" \o suffix

\* spec.ARCHIVE_URL_PREFIX and the archive that names an upload spec.
SpecArchive(name) ==
    [Type |-> ArchiveTypeUrl, Literal |-> <<>>, URL |-> <<"archive://", name>>,
     Checksum |-> <<>>]

\* fr.SpecExists on an archive upload spec: the saved upload specs with the
\* same globs; on a package: the saved packages with the same spec.
SameUploadSpecs(saved, includeFiles) ==
    {i \in 1..Len(saved) :
        saved[i].kind = "ArchiveUploadSpec" /\ saved[i].IncludeGlobs = includeFiles}

SamePackages(saved, obj) ==
    {i \in 1..Len(saved) : saved[i].kind = "Package" /\ saved[i].pkg.Spec = obj.Spec}

First(S) == CHOOSE i \in S : \A j \in S : i <= j

\* createArchive with a spec file: the name of the upload spec it refers to
\* and the spec directory afterwards.
specArchiveName(saved, includeFiles, suffix) ==
    IF SameUploadSpecs(saved, includeFiles) # {}
    THEN saved[First(SameUploadSpecs(saved, includeFiles))].Name
    ELSE archiveName(includeFiles, suffix)

\* Variant of specArchiveSave: the upload spec is saved in every call.
specArchiveSaveAlways(saved, includeFiles, suffix) ==
    Append(saved, [kind |-> "ArchiveUploadSpec",
                   Name |-> archiveName(includeFiles, suffix),
                   IncludeGlobs |-> includeFiles])

specArchiveSave(saved, includeFiles, suffix) ==
    IF SameUploadSpecs(saved, includeFiles) # {} THEN saved
    ELSE Append(saved, [kind |-> "ArchiveUploadSpec",
                        Name |-> archiveName(includeFiles, suffix),
                        IncludeGlobs |-> includeFiles])

\* The parameters of createPackage.
CreateCall(pkgNamespace, envName, envNamespace, srcArchiveFiles, deployArchiveFiles, buildcmd, specFile, noZip) ==
    [pkgNamespace |-> pkgNamespace, envName |-> envName, envNamespace |-> envNamespace,
     srcArchiveFiles |-> srcArchiveFiles, deployArchiveFiles |-> deployArchiveFiles,
     buildcmd |-> buildcmd, specFile |-> specFile, noZip |-> noZip]

\* Variant of createPackageStatus: a deployment archive makes the status
\* none in every mode.
createPackageStatusNoneAlways(srcArchiveFiles, deployArchiveFiles, specFile) ==
    IF Len(srcArchiveFiles) > 0 THEN BuildStatusPending
    ELSE IF Len(deployArchiveFiles) > 0 THEN BuildStatusNone
    ELSE BuildStatusSucceeded

\* pkgStatus as createPackage decides it.
createPackageStatus(srcArchiveFiles, deployArchiveFiles, specFile) ==
    IF Len(srcArchiveFiles) > 0 THEN BuildStatusPending
    ELSE IF Len(deployArchiveFiles) > 0 /\ Len(specFile) > 0 THEN BuildStatusNone
    ELSE BuildStatusSucceeded

\* pkgName as createPackage decides it.
createPackageName(srcArchiveFiles, deployArchiveFiles, suffix) ==
    IF Len(srcArchiveFiles) > 0 THEN KubifyName(srcArchiveFiles[1]) \o "-" \o suffix
    ELSE IF Len(deployArchiveFiles) > 0 THEN KubifyName(deployArchiveFiles[1]) \o "-" \o suffix
    ELSE "uuid-" \o suffix

\* The archive createArchive returns, with and without a spec file.
createdArchive(saved, includeFiles, noZip, specFile, suffix) ==
    IF Len(includeFiles) = 0 THEN EmptyArchive
    ELSE IF Len(specFile) > 0 THEN SpecArchive(specArchiveName(saved, includeFiles, suffix))
    ELSE createArchive(includeFiles, noZip)

\* client.PackageCreate fails when the store holds a package of that name.
PackageCreateAccepted(obj) == KeyOf(obj) \notin DOMAIN packages

CreateArgs ==
    [name : {""}, pkgNamespace : Namespaces, force : {FALSE},
     env : {""} \cup EnvNames, envNamespace : {Unset} \cup Namespaces,
     src : SrcInputs, deploy : DeployInputs, buildcmd : {""} \cup BuildCmds,
     orphan : {FALSE}]

\* Variant of pkgCreate: a missing --env is passed on to createPackage.
pkgCreateNoEnvCheck(p) ==
    /\ pc[p] = "idle"
    /\ \E a \in CreateArgs :
        /\ cmd' = [cmd EXCEPT ![p] = "create"]
        /\ args' = [args EXCEPT ![p] = a]
        /\ IF Len(a.src) = 0 /\ Len(a.deploy) = 0
           THEN /\ End(p, "Need --src to specify source archive, or use --deploy to specify deployment archive.")
                /\ UNCHANGED call
           ELSE /\ call' = [call EXCEPT ![p] =
                       CreateCall(a.pkgNamespace, a.env, envNamespaceFlag(a), a.src,
                                  a.deploy, a.buildcmd, "", FALSE)]
                /\ pc' = [pc EXCEPT ![p] = "createPackage"]
                /\ UNCHANGED outcome
    /\ UNCHANGED <<store, pkg, fnList, newPkgMeta, uploads, specs, sweep, output, pkgRevisions>>

\* pkgCreate up to its call of createPackage.
pkgCreate(p) ==
    /\ pc[p] = "idle"
    /\ \E a \in CreateArgs :
        /\ cmd' = [cmd EXCEPT ![p] = "create"]
        /\ args' = [args EXCEPT ![p] = a]
        /\ IF Len(a.env) = 0
           THEN End(p, "Need --env argument.") /\ UNCHANGED call
           ELSE IF Len(a.src) = 0 /\ Len(a.deploy) = 0
           THEN /\ End(p, "Need --src to specify source archive, or use --deploy to specify deployment archive.")
                /\ UNCHANGED call
           ELSE /\ call' = [call EXCEPT ![p] =
                       CreateCall(a.pkgNamespace, a.env, envNamespaceFlag(a), a.src,
                                  a.deploy, a.buildcmd, "", FALSE)]
                /\ pc' = [pc EXCEPT ![p] = "createPackage"]
                /\ UNCHANGED outcome
    /\ UNCHANGED <<store, pkg, fnList, newPkgMeta, uploads, specs, sweep, output, pkgRevisions>>

\* createPackage: build the archives (deployment first), decide status and
\* name, then save the package to the spec file or create it in the store.
createPackage(p) ==
    /\ pc[p] = "createPackage"
    /\ \E suffix \in Suffixes :
        LET c == call[p]
            inSpec == Len(c.specFile) > 0
            saved1 == IF inSpec /\ Len(c.deployArchiveFiles) > 0
                      THEN specArchiveSave(specs, c.deployArchiveFiles, suffix) ELSE specs
            saved2 == IF inSpec /\ Len(c.srcArchiveFiles) > 0
                      THEN specArchiveSave(saved1, c.srcArchiveFiles, suffix) ELSE saved1
            up1 == IF inSpec THEN uploads
                   ELSE uploads \cup UploadedIfAny(c.deployArchiveFiles, c.noZip)
            up2 == IF inSpec THEN up1 ELSE up1 \cup UploadedIfAny(c.srcArchiveFiles, FALSE)
            obj == Package(createPackageName(c.srcArchiveFiles, c.deployArchiveFiles, suffix),
                           c.pkgNamespace, 0, c.envName, c.envNamespace, c.buildcmd,
                           createdArchive(saved1, c.srcArchiveFiles, FALSE, c.specFile, suffix),
                           createdArchive(specs, c.deployArchiveFiles, c.noZip, c.specFile, suffix),
                           createPackageStatus(c.srcArchiveFiles, c.deployArchiveFiles, c.specFile),
                           "")
        IN IF createArchiveFatal(c.deployArchiveFiles)
           THEN /\ End(p, "Error finding any files")
                /\ UNCHANGED <<store, pkg, newPkgMeta, uploads, specs, pkgRevisions>>
           ELSE IF createArchiveFatal(c.srcArchiveFiles)
           THEN /\ End(p, "Error finding any files")
                /\ uploads' = up1
                /\ specs' = saved1
                /\ UNCHANGED <<store, pkg, newPkgMeta, pkgRevisions>>
           ELSE IF inSpec
           THEN /\ uploads' = up2
                /\ IF SamePackages(saved2, obj) # {}
                   THEN /\ specs' = saved2
                        /\ newPkgMeta' = [newPkgMeta EXCEPT
                               ![p] = saved2[First(SamePackages(saved2, obj))].pkg.Metadata]
                        /\ pkg' = [pkg EXCEPT
                               ![p] = saved2[First(SamePackages(saved2, obj))].pkg]
                   ELSE /\ specs' = Append(saved2, [kind |-> "Package", pkg |-> obj])
                        /\ newPkgMeta' = [newPkgMeta EXCEPT ![p] = obj.Metadata]
                        /\ pkg' = [pkg EXCEPT ![p] = obj]
                /\ End(p, "ok")
                /\ UNCHANGED <<store, pkgRevisions>>
           ELSE /\ uploads' = up2
                /\ IF PackageCreateAccepted(obj)
                   THEN /\ lastRV' = lastRV + 1
                        /\ packages' = (KeyOf(obj) :>
                               [obj EXCEPT !.Metadata.ResourceVersion = lastRV + 1]) @@ packages
                        /\ pkgRevisions' = pkgRevisions \cup
                               {<<obj.Metadata.Namespace, obj.Metadata.Name, lastRV + 1>>}
                        /\ newPkgMeta' = [newPkgMeta EXCEPT
                               ![p] = [obj.Metadata EXCEPT !.ResourceVersion = lastRV + 1]]
                        /\ pkg' = [pkg EXCEPT ![p] = obj]
                        /\ End(p, "ok")
                   ELSE /\ End(p, "create package")
                        /\ UNCHANGED <<packages, lastRV, pkg, newPkgMeta, pkgRevisions>>
                /\ UNCHANGED <<functions, specs>>
    /\ UNCHANGED <<cmd, args, call, fnList, sweep, output>>

\* ------------------------------------------------- pkg getsrc / getdeploy

\* _package.DownloadURL through the storage proxy: the storage service
\* answers 200 with the content uploaded under the identifier in the URL.
StoredUnder(url) == Tail(url)
DownloadOk(url) == Len(url) > 0 /\ Head(url) = "storagesvc" /\ StoredUnder(url) \in uploads

GetNames == {"", "p1", "a-py-r1", "d-zip-r1", "file-r1"}
GetArgs ==
    [name : GetNames, pkgNamespace : {NamespaceDefault}, force : {FALSE},
     env : {""}, envNamespace : {Unset}, src : {<<>>}, deploy : {<<>>},
     buildcmd : {""}, orphan : {FALSE}]

\* What the handlers do with the archive they picked: copy a literal, or
\* the download of a URL, to the output; any other archive leaves the
\* reader nil and the copy dereferences it.
writeArchive(p, archive) ==
    IF archive.Type = ArchiveTypeLiteral
    THEN output' = [output EXCEPT ![p] = archive.Literal] /\ End(p, "ok")
    ELSE IF archive.Type = ArchiveTypeUrl
    THEN IF DownloadOk(archive.URL)
         THEN output' = [output EXCEPT ![p] = StoredUnder(archive.URL)] /\ End(p, "ok")
         ELSE End(p, "download from storage service url") /\ UNCHANGED output
    ELSE End(p, "panic: nil reader") /\ UNCHANGED output

\* Variant of pkgSourceGet: it writes the deployment archive.
pkgSourceGetDeployment(p) ==
    /\ pc[p] = "idle"
    /\ \E a \in GetArgs :
        /\ cmd' = [cmd EXCEPT ![p] = "getsrc"]
        /\ args' = [args EXCEPT ![p] = a]
        /\ IF Len(a.name) = 0
           THEN End(p, "Need name of package, use --name") /\ UNCHANGED <<pkg, output>>
           ELSE IF ~PackageExists(a.pkgNamespace, a.name)
           THEN End(p, "error: get package") /\ UNCHANGED <<pkg, output>>
           ELSE /\ pkg' = [pkg EXCEPT ![p] = PackageGet(a.pkgNamespace, a.name)]
                /\ writeArchive(p, PackageGet(a.pkgNamespace, a.name).Spec.Deployment)
    /\ UNCHANGED <<store, call, fnList, newPkgMeta, uploads, specs, sweep, pkgRevisions>>

pkgSourceGet(p) ==
    /\ pc[p] = "idle"
    /\ \E a \in GetArgs :
        /\ cmd' = [cmd EXCEPT ![p] = "getsrc"]
        /\ args' = [args EXCEPT ![p] = a]
        /\ IF Len(a.name) = 0
           THEN End(p, "Need name of package, use --name") /\ UNCHANGED <<pkg, output>>
           ELSE IF ~PackageExists(a.pkgNamespace, a.name)
           THEN End(p, "error: get package") /\ UNCHANGED <<pkg, output>>
           ELSE /\ pkg' = [pkg EXCEPT ![p] = PackageGet(a.pkgNamespace, a.name)]
                /\ writeArchive(p, PackageGet(a.pkgNamespace, a.name).Spec.Source)
    /\ UNCHANGED <<store, call, fnList, newPkgMeta, uploads, specs, sweep, pkgRevisions>>

pkgDeployGet(p) ==
    /\ pc[p] = "idle"
    /\ \E a \in GetArgs :
        /\ cmd' = [cmd EXCEPT ![p] = "getdeploy"]
        /\ args' = [args EXCEPT ![p] = a]
        /\ IF Len(a.name) = 0
           THEN End(p, "Need name of package, use --name") /\ UNCHANGED <<pkg, output>>
           ELSE IF ~PackageExists(a.pkgNamespace, a.name)
           THEN End(p, "error: get package") /\ UNCHANGED <<pkg, output>>
           ELSE /\ pkg' = [pkg EXCEPT ![p] = PackageGet(a.pkgNamespace, a.name)]
                /\ writeArchive(p, PackageGet(a.pkgNamespace, a.name).Spec.Deployment)
    /\ UNCHANGED <<store, call, fnList, newPkgMeta, uploads, specs, sweep, pkgRevisions>>

\* --------------------------------------------------------------------- Init

\* The packages the store holds at the start: default/p1, made from a source
\* archive (pending) or from a deployment archive (succeeded, or none when
\* applied from a spec), and ns2/p1, made from a deployment archive.
InitPackages ==
    {Package("p1", "default", 1, "e1", ns, "b0", OldSource, EmptyArchive,
             BuildStatusPending, "") : ns \in Namespaces}
    \cup
    {Package("p1", "default", 1, "e1", ns, "", EmptyArchive, OldDeployment, st, "") :
         ns \in Namespaces, st \in {BuildStatusSucceeded, BuildStatusNone}}

OtherPackage ==
    Package("p1", "ns2", 1, "e1", "default", "", EmptyArchive, OldDeployment,
            BuildStatusSucceeded, "")

\* The functions of the store at the start: each in some namespace, using
\* p1 of some namespace at its current resource version.
InitFunctions ==
    UNION {[S -> Namespaces \X Namespaces] :
             S \in {{<<"f", j>> : j \in 1..i} : i \in 0..MaxFns}}

Init ==
    /\ \E first \in InitPackages :
           packages = (<<"default", "p1">> :> first) @@ (<<"ns2", "p1">> :> OtherPackage)
    /\ \E f \in InitFunctions :
           functions = [n \in DOMAIN f |-> Function(n, f[n][1], 1, "p1", f[n][2], 1)]
    /\ lastRV = 1
    /\ pc = [p \in Procs |-> "idle"]
    /\ cmd = [p \in Procs |-> ""]
    /\ args = [p \in Procs |-> NoArgs]
    /\ pkg = [p \in Procs |-> NoPackage]
    /\ call = [p \in Procs |-> NoCall]
    /\ fnList = [p \in Procs |-> <<>>]
    /\ newPkgMeta = [p \in Procs |-> NoMeta]
    /\ outcome = [p \in Procs |-> ""]
    /\ uploads = {<<"old.zip">>}
    /\ specs = <<>>
    /\ pkgList = [p \in Procs |-> <<>>]
    /\ pkgIdx = [p \in Procs |-> 0]
    /\ deleteCalls = [p \in Procs |-> <<>>]
    /\ pkgRevisions = {<<k[1], k[2], packages[k].Metadata.ResourceVersion>> : k \in DOMAIN packages}
    /\ output = [p \in Procs |-> NoOutput]

\* ------------------------------------------------------------ specification

\* One invocation, run to completion; the build service works before it.
Quiet == \A q \in Procs : pc[q] = "idle"

Next ==
    \/ \E p \in Procs : Quiet /\ p = "cli1" /\ pkgUpdate(p)
    \/ \E p \in Procs : Quiet /\ p = "cli1" /\ pkgRebuild(p)
    \/ \E p \in Procs : updatePackage(p)
    \/ \E p \in Procs : pkgUpdateFunction(p)
    \/ \E p \in Procs : pkgUpdateReturn(p)
    \/ \E key \in DOMAIN packages : Quiet /\ BuildStart(key)
    \/ \E key \in DOMAIN packages : Quiet /\ BuildFinish(key)

Spec == Init /\ [][Next]_vars

\* updatePackage under every combination of its parameters: a caller reads
\* a package and calls updatePackage on it.
CallArgs ==
    {Call(e, ns, src, dep, b, force, noZip) :
        e \in {""} \cup EnvNames, ns \in {""} \cup Namespaces, src \in SrcInputs,
        dep \in DeployInputs, b \in {""} \cup BuildCmds, force \in BOOLEAN,
        noZip \in BOOLEAN}

updatePackageCaller(p) ==
    /\ pc[p] = "idle"
    /\ \E key \in DOMAIN packages, c \in CallArgs :
        /\ cmd' = [cmd EXCEPT ![p] = "call"]
        /\ pkg' = [pkg EXCEPT ![p] = packages[key]]
        /\ call' = [call EXCEPT ![p] = c]
        /\ pc' = [pc EXCEPT ![p] = "updatePackage"]
    /\ UNCHANGED <<store, args, fnList, newPkgMeta, outcome, uploads, specs, sweep, output, pkgRevisions>>

NextFn ==
    \/ \E p \in Procs : Quiet /\ p = "cli1" /\ updatePackageCaller(p)
    \/ \E p \in Procs : updatePackage(p)
    \/ \E key \in DOMAIN packages : Quiet /\ BuildStart(key)
    \/ \E key \in DOMAIN packages : Quiet /\ BuildFinish(key)

SpecFn == Init /\ [][NextFn]_vars

\* Creation: one process runs pkgCreate; either process calls createPackage
\* the way the other commands of the CLI do, with or without a spec file.
CreateCalls ==
    {CreateCall("default", "e1", "default", src, dep, b, specFile, noZip) :
        src \in SrcInputs, dep \in DeployInputs, b \in {""} \cup BuildCmds,
        specFile \in {"", "specs.yaml"}, noZip \in BOOLEAN}

createPackageCallerWith(p, calls) ==
    /\ pc[p] = "idle"
    /\ \E c \in calls :
        /\ cmd' = [cmd EXCEPT ![p] = "create"]
        /\ call' = [call EXCEPT ![p] = c]
        /\ pc' = [pc EXCEPT ![p] = "createPackage"]
    /\ UNCHANGED <<store, args, pkg, fnList, newPkgMeta, outcome, uploads, specs, sweep, output, pkgRevisions>>

createPackageCaller(p) == createPackageCallerWith(p, CreateCalls)

InitCreate == Init /\ DOMAIN functions = {}

NextCreate ==
    \/ \E p \in Procs : p = "cli1" /\ pkgCreate(p)
    \/ \E p \in Procs : createPackageCaller(p)
    \/ \E p \in Procs : createPackage(p)

SpecCreate == InitCreate /\ [][NextCreate]_vars

\* Concurrent invocations: two processes update or rebuild default/p1, each
\* starting at any moment and taking its steps in any order. An update sets
\* the build command or replaces the deployment archive.
ConcUpdateArgs ==
    {a \in UpdateArgs :
        /\ a.name = "p1" /\ a.pkgNamespace = "default"
        /\ a.env = "" /\ a.envNamespace = Unset /\ a.src = <<>>
        /\ \/ a.buildcmd = "b1" /\ a.deploy = <<>>
           \/ a.buildcmd = "" /\ a.deploy = <<"d.zip">>}

ConcRebuildArgs == {a \in RebuildArgs : a.name = "p1" /\ a.pkgNamespace = "default"}

\* The two processes are interchangeable: cli1 is the one that starts first.
InTurn(p) == p = "cli1" \/ pc["cli1"] # "idle"

NextConc ==
    \/ \E p \in Procs : InTurn(p) /\ pkgUpdateWith(p, ConcUpdateArgs)
    \/ \E p \in Procs : InTurn(p) /\ pkgRebuild(p) /\ args'[p] \in ConcRebuildArgs
    \/ \E p \in Procs : updatePackage(p)
    \/ \E p \in Procs : pkgUpdateFunction(p)
    \/ \E p \in Procs : pkgUpdateReturn(p)
    \/ \E key \in DOMAIN packages : Quiet /\ BuildStart(key)
    \/ \E key \in DOMAIN packages : Quiet /\ BuildFinish(key)

SpecConc == Init /\ [][NextConc]_vars

\* Deletion: the store holds three packages in namespace default and one in
\* ns2; each function uses p1 or p2 of some namespace. One process runs any
\* pkgDelete; a second one force-deletes a package of namespace default by
\* name at any moment.
DeletePackages ==
    [key \in ({"default"} \X {PkgOrder[i] : i \in 1..Len(PkgOrder)}) \cup {<<"ns2", "p1">>} |->
        Package(key[2], key[1], 1, "e1", "default", "", EmptyArchive, OldDeployment,
                BuildStatusSucceeded, "")]

DeleteFunctions ==
    UNION {[S -> Namespaces \X {"p1", "p2"} \X Namespaces] :
             S \in {{<<"f", j>> : j \in 1..i} : i \in 0..MaxFns}}

InitDelete ==
    /\ packages = DeletePackages
    /\ \E f \in DeleteFunctions :
           functions = [n \in DOMAIN f |-> Function(n, f[n][1], 1, f[n][2], f[n][3], 1)]
    /\ lastRV = 1
    /\ pc = [p \in Procs |-> "idle"]
    /\ cmd = [p \in Procs |-> ""]
    /\ args = [p \in Procs |-> NoArgs]
    /\ pkg = [p \in Procs |-> NoPackage]
    /\ call = [p \in Procs |-> NoCall]
    /\ fnList = [p \in Procs |-> <<>>]
    /\ newPkgMeta = [p \in Procs |-> NoMeta]
    /\ outcome = [p \in Procs |-> ""]
    /\ uploads = {<<"old.zip">>}
    /\ specs = <<>>
    /\ pkgList = [p \in Procs |-> <<>>]
    /\ pkgIdx = [p \in Procs |-> 0]
    /\ deleteCalls = [p \in Procs |-> <<>>]
    /\ pkgRevisions = {<<k[1], k[2], 1>> : k \in DOMAIN packages}
    /\ output = [p \in Procs |-> NoOutput]

ForcedDeleteArgs ==
    {a \in DeleteArgs : Len(a.name) # 0 /\ a.pkgNamespace = "default" /\ a.force /\ ~a.orphan}

NextDelete ==
    \/ \E p \in Procs : p = "cli1" /\ pkgDelete(p)
    \/ \E p \in Procs : p = "cli2" /\ pkgDelete(p) /\ args'[p] \in ForcedDeleteArgs
    \/ \E p \in Procs : deleteOrphanPkgs(p)
    \/ \E p \in Procs : deleteOrphanPkgsReturn(p)
    \/ \E p \in Procs : deletePackage(p)

SpecDelete == InitDelete /\ [][NextDelete]_vars

\* The archive builder under every kind of input list: one file below, one
\* at the literal limit, two files, a URL, a pattern without match alone
\* and after a file.  cli1 creates a package; cli2 then creates another
\* from a spec file or fetches an archive.
BuildInputs ==
    {<<>>, <<"a.py">>, <<"d.zip">>, <<"a.py", "d.zip">>, <<"http://u">>,
     <<"nomatch*">>, <<"d.zip", "nomatch*">>}
BuildSrcInputs == {<<>>, <<"a.py">>, <<"d.zip">>, <<"nomatch*">>}

BuildCalls ==
    {CreateCall("default", "e1", "default", src, dep, "", specFile, noZip) :
        src \in BuildSrcInputs, dep \in BuildInputs,
        specFile \in {"", "specs.yaml"}, noZip \in BOOLEAN}

SpecFileCalls == {c \in BuildCalls : Len(c.specFile) > 0}

InitBuild ==
    /\ InitCreate
    /\ packages[<<"default", "p1">>].Spec.Source = OldSource
    /\ packages[<<"default", "p1">>].Spec.Environment.Namespace = "default"

NextBuild ==
    \/ \E p \in Procs : p = "cli1" /\ createPackageCallerWith(p, BuildCalls)
    \/ \E p \in Procs : p = "cli2" /\ pc["cli1"] = "done" /\ createPackageCallerWith(p, SpecFileCalls)
    \/ \E p \in Procs : p = "cli2" /\ pc["cli1"] = "done" /\ pkgSourceGet(p)
    \/ \E p \in Procs : p = "cli2" /\ pc["cli1"] = "done" /\ pkgDeployGet(p)
    \/ \E p \in Procs : createPackage(p)

SpecBuild == InitBuild /\ [][NextBuild]_vars

\* One invocation of pkg create or pkg update under every combination of
\* flags given and not given.
CliUpdateArgs ==
    [name : {""} \cup PkgNames, pkgNamespace : {NamespaceDefault}, force : {FALSE},
     env : {"", "e2"}, envNamespace : {Unset, "ns2"}, src : SrcInputs,
     deploy : {<<>>, <<"d.zip">>}, buildcmd : {""} \cup BuildCmds, orphan : {FALSE}]

NextCli ==
    \/ \E p \in Procs : p = "cli1" /\ pkgCreate(p)
    \/ \E p \in Procs : p = "cli1" /\ pkgUpdateWith(p, CliUpdateArgs)
    \/ \E p \in Procs : createPackage(p)
    \/ \E p \in Procs : updatePackage(p)
    \/ \E p \in Procs : pkgUpdateFunction(p)
    \/ \E p \in Procs : pkgUpdateReturn(p)

SpecCli == Init /\ [][NextCli]_vars

\* One invocation of pkg create, pkg update or pkg rebuild; the build
\* service works before it.
NextStatus ==
    \/ \E p \in Procs : Quiet /\ p = "cli1" /\ pkgCreate(p)
    \/ \E p \in Procs : Quiet /\ p = "cli1" /\ pkgUpdateWith(p, CliUpdateArgs)
    \/ \E p \in Procs : Quiet /\ p = "cli1" /\ pkgRebuild(p)
    \/ \E p \in Procs : createPackage(p)
    \/ \E p \in Procs : updatePackage(p)
    \/ \E p \in Procs : pkgUpdateFunction(p)
    \/ \E p \in Procs : pkgUpdateReturn(p)
    \/ \E key \in DOMAIN packages : Quiet /\ BuildStart(key)
    \/ \E key \in DOMAIN packages : Quiet /\ BuildFinish(key)

SpecStatus == Init /\ [][NextStatus]_vars

\* Two invocations of pkg rebuild while the build service works on the
\* packages at any moment.
NextRebuild ==
    \/ \E p \in Procs : InTurn(p) /\ pkgRebuild(p)
    \/ \E p \in Procs : updatePackage(p)
    \/ \E key \in DOMAIN packages : BuildStart(key)
    \/ \E key \in DOMAIN packages : BuildFinish(key)

SpecRebuild == InitCreate /\ [][NextRebuild]_vars

\* One invocation of pkg update on default/p1 while other clients create
\* functions at any moment; the store holds no function at the start.
NextUpdateRace ==
    \/ \E p \in Procs : p = "cli1" /\ pkgUpdateWith(p, ConcUpdateArgs)
    \/ \E p \in Procs : updatePackage(p)
    \/ \E p \in Procs : pkgUpdateFunction(p)
    \/ \E p \in Procs : pkgUpdateReturn(p)
    \/ \E n \in FnNames, key \in DOMAIN packages : FunctionCreate(n, key)

SpecUpdateRace == InitCreate /\ [][NextUpdateRace]_vars

\* One invocation of pkg delete while other clients create functions at any
\* moment; the store holds no function at the start.
InitDeleteRace == InitDelete /\ DOMAIN functions = {}

NextDeleteRace ==
    \/ \E p \in Procs : p = "cli1" /\ pkgDelete(p)
    \/ \E p \in Procs : deleteOrphanPkgs(p)
    \/ \E p \in Procs : deleteOrphanPkgsReturn(p)
    \/ \E p \in Procs : deletePackage(p)
    \/ \E n \in FnNames, key \in DOMAIN packages : FunctionCreate(n, key)

SpecDeleteRace == InitDeleteRace /\ [][NextDeleteRace]_vars

\* ------------------------------------------------------------------ claims

\* The package of process p as the store holds it now, and whether the store
\* accepted p's package write.
Stored(p) == packages[<<pkg[p].Metadata.Namespace, pkg[p].Metadata.Name>>]
Persisted(p) == newPkgMeta[p] # NoMeta
StatusOf(x) == x.Status.BuildStatus

\* C1: pkgRebuild on an existing package succeeds and leaves buildStatus
\* Pending if and only if the status it read was Failed; on every other
\* status it fails with the state error, writes nothing and the stored
\* package is as it was read.
C1_RebuildIffFailed ==
    \A p \in Procs :
        (pc[p] = "done" /\ cmd[p] = "rebuild" /\ pkg[p] # NoPackage) =>
            /\ (outcome[p] = "ok" /\ StatusOf(Stored(p)) = BuildStatusPending)
                   <=> (StatusOf(pkg[p]) = BuildStatusFailed)
            /\ StatusOf(pkg[p]) # BuildStatusFailed =>
                   /\ outcome[p] = "Package is not in failed state."
                   /\ ~Persisted(p)
                   /\ Stored(p) = pkg[p]

C1_Witness ==
    \E p \in Procs :
        /\ pc[p] = "done" /\ cmd[p] = "rebuild" /\ outcome[p] = "ok"
        /\ StatusOf(pkg[p]) = BuildStatusFailed
        /\ StatusOf(Stored(p)) = BuildStatusPending
        /\ Stored(p).Metadata.ResourceVersion # pkg[p].Metadata.ResourceVersion

\* C2: after a pkgUpdate that completes successfully and changes the
\* package's resourceVersion, every function that references the package
\* (by name and namespace) carries the package's new resourceVersion.
C2_AllReferencingFunctionsSynced ==
    \A p \in Procs :
        (pc[p] = "done" /\ cmd[p] = "update" /\ outcome[p] = "ok"
         /\ newPkgMeta[p].ResourceVersion # pkg[p].Metadata.ResourceVersion) =>
            \A n \in Referencing(functions, pkg[p].Metadata.Namespace, pkg[p].Metadata.Name) :
                functions[n].Package.ResourceVersion = newPkgMeta[p].ResourceVersion

\* C3: when an operation that persisted a package mutation (update or
\* rebuild) ends, every function whose packageRef name and namespace match
\* the package carries the new resourceVersion, or the operation reported a
\* propagation failure.
C3_SyncedOrFailureReported ==
    \A p \in Procs :
        (pc[p] = "done" /\ cmd[p] \in {"update", "rebuild"} /\ Persisted(p)) =>
            \/ \A n \in Referencing(functions, pkg[p].Metadata.Namespace,
                                    pkg[p].Metadata.Name) :
                   functions[n].Package.ResourceVersion = newPkgMeta[p].ResourceVersion
            \/ outcome[p] = "update function"

\* updatePackage was given a deployment archive and nothing else.
DeployOnly(c) ==
    /\ Len(c.deployArchiveFiles) > 0
    /\ Len(c.envName) = 0 /\ Len(c.envNamespace) = 0 /\ Len(c.buildcmd) = 0
    /\ Len(c.srcArchiveFiles) = 0 /\ ~c.forceRebuild

EnvNameChanged(p) == Stored(p).Spec.Environment.Name # pkg[p].Spec.Environment.Name
EnvNamespaceChanged(p) ==
    Stored(p).Spec.Environment.Namespace # pkg[p].Spec.Environment.Namespace
BuildCommandChanged(p) == Stored(p).Spec.BuildCommand # pkg[p].Spec.BuildCommand
SourceReplaced(p) == Len(call[p].srcArchiveFiles) > 0
RebuildOwed(p) ==
    EnvNameChanged(p) \/ EnvNamespaceChanged(p) \/ BuildCommandChanged(p) \/ SourceReplaced(p)

\* C5 as claimed: an update that changes the environment name, the
\* environment namespace or the build command, or replaces the source
\* archive, persists buildStatus Pending whatever else it changes.
C5_TriggerAlwaysPending ==
    \A p \in Procs :
        (cmd[p] = "update" /\ Persisted(p) /\ RebuildOwed(p)) =>
            StatusOf(Stored(p)) = BuildStatusPending

\* C5 as amended: such an update persists buildStatus Pending provided it
\* does not also supply a deployment archive.
C5_TriggerPendingUnlessDeploy ==
    \A p \in Procs :
        (cmd[p] = "update" /\ Persisted(p) /\ RebuildOwed(p)
         /\ Len(call[p].deployArchiveFiles) = 0) =>
            StatusOf(Stored(p)) = BuildStatusPending

C5_Witness ==
    \E p \in Procs :
        /\ cmd[p] = "update" /\ Persisted(p)
        /\ BuildCommandChanged(p) /\ ~EnvNameChanged(p) /\ ~EnvNamespaceChanged(p)
        /\ ~SourceReplaced(p) /\ Len(call[p].deployArchiveFiles) = 0
        /\ StatusOf(pkg[p]) = BuildStatusSucceeded
        /\ StatusOf(Stored(p)) = BuildStatusPending

\* updatePackage was given a source archive and nothing else.
SrcOnly(c) ==
    /\ Len(c.srcArchiveFiles) > 0
    /\ Len(c.envName) = 0 /\ Len(c.envNamespace) = 0 /\ Len(c.buildcmd) = 0
    /\ Len(c.deployArchiveFiles) = 0 /\ ~c.forceRebuild

\* C6: updatePackage given only a new source archive persists buildStatus
\* Pending, whatever the buildStatus was.
C6_SrcOnlyPending ==
    \A p \in Procs :
        (Persisted(p) /\ SrcOnly(call[p])) => StatusOf(Stored(p)) = BuildStatusPending

C6_Witness ==
    \E p \in Procs :
        /\ Persisted(p) /\ SrcOnly(call[p])
        /\ StatusOf(pkg[p]) = BuildStatusSucceeded
        /\ Stored(p).Spec.Source # pkg[p].Spec.Source
        /\ StatusOf(Stored(p)) = BuildStatusPending

\* C7: updatePackage called with forceRebuild persists buildStatus Pending,
\* for every combination of its other arguments and every prior buildStatus.
C7_ForceRebuildPending ==
    \A p \in Procs :
        (Persisted(p) /\ call[p].forceRebuild) => StatusOf(Stored(p)) = BuildStatusPending

C7_Witness ==
    \E p \in Procs :
        /\ Persisted(p) /\ call[p].forceRebuild
        /\ Len(call[p].deployArchiveFiles) > 0
        /\ StatusOf(pkg[p]) = BuildStatusSucceeded
        /\ StatusOf(Stored(p)) = BuildStatusPending

\* C8: a pkgUpdate that asks for the environment name the package already
\* has, and gives no other flag, leaves the package's buildStatus as it was.
C8_SameEnvKeepsStatus ==
    \A p \in Procs :
        (cmd[p] = "update" /\ Persisted(p)
         /\ args[p].env = pkg[p].Spec.Environment.Name
         /\ args[p].envNamespace = Unset
         /\ Len(args[p].src) = 0 /\ Len(args[p].deploy) = 0
         /\ Len(args[p].buildcmd) = 0) =>
            StatusOf(Stored(p)) = StatusOf(pkg[p])

\* C9: a pkgUpdate given no environment namespace leaves the package's
\* environment namespace as it was, and does not make the package Pending
\* when nothing else of the update owes a rebuild.
C9_UnsetNamespaceUntouched ==
    \A p \in Procs :
        (cmd[p] = "update" /\ Persisted(p) /\ args[p].envNamespace = Unset) =>
            /\ ~EnvNamespaceChanged(p)
            /\ (~EnvNameChanged(p) /\ ~BuildCommandChanged(p) /\ ~SourceReplaced(p)) =>
                   StatusOf(Stored(p)) = StatusOf(pkg[p])

\* C10: for each of environment name, build command, source archive and
\* deployment archive, an updatePackage call with that argument empty
\* persists the field with the value it had before.
C10_EmptyArgumentKeepsField ==
    \A p \in Procs :
        Persisted(p) =>
            /\ Len(call[p].envName) = 0 => ~EnvNameChanged(p)
            /\ Len(call[p].buildcmd) = 0 => ~BuildCommandChanged(p)
            /\ Len(call[p].srcArchiveFiles) = 0 =>
                   Stored(p).Spec.Source = pkg[p].Spec.Source
            /\ Len(call[p].deployArchiveFiles) = 0 =>
                   Stored(p).Spec.Deployment = pkg[p].Spec.Deployment

C10_Witness ==
    \E p \in Procs :
        /\ Persisted(p)
        /\ Len(call[p].envName) = 0 /\ Len(call[p].buildcmd) = 0
        /\ Len(call[p].srcArchiveFiles) = 0 /\ Len(call[p].deployArchiveFiles) = 0
        /\ call[p].envNamespace # ""
        /\ EnvNamespaceChanged(p)
        /\ pkg[p].Spec.BuildCommand = "b0"
        /\ Stored(p).Spec.BuildCommand = "b0"
        /\ Stored(p).Spec.Source = OldSource

\* No other process has started: the operation of p runs alone.
Alone(p) == \A q \in Procs \ {p} : cmd[q] = ""

\* C11: pkgDelete by name on an existing package: without force it fails and
\* the package remains whenever at least one function references the
\* package; with force it succeeds and the package is absent from the store,
\* however many functions reference it.
C11_DeleteGuardedByReferences ==
    \A p \in Procs :
        (pc[p] = "done" /\ cmd[p] = "delete" /\ ~args[p].orphan
         /\ pkg[p] # NoPackage /\ Alone(p)) =>
            /\ (~args[p].force /\ Referencing(functions, args[p].pkgNamespace, args[p].name) # {}) =>
                   /\ outcome[p] = DeleteGuardMsg
                   /\ PackageExists(args[p].pkgNamespace, args[p].name)
            /\ args[p].force =>
                   /\ outcome[p] = "ok"
                   /\ ~PackageExists(args[p].pkgNamespace, args[p].name)

UpdateGuardMsg == "Package is used by multiple functions, use --force to force update"

\* C12: pkgUpdate without force on a package referenced by more than one
\* function fails before any archive is stored, before the package is
\* written and before any function is written; with force, or with zero or
\* one referencing function, the guard lets the update proceed.
C12_UpdateGuardedByReferences ==
    \A p \in Procs :
        (cmd[p] = "update" /\ pkg[p] # NoPackage) =>
            LET shared == Cardinality(Referencing(functions, pkg[p].Metadata.Namespace,
                                                  pkg[p].Metadata.Name)) > 1
            IN /\ (~args[p].force /\ shared) =>
                      /\ outcome[p] = UpdateGuardMsg
                      /\ ~Persisted(p)
                      /\ Stored(p) = pkg[p]
                      /\ uploads \subseteq {<<"old.zip">>, <<"built">>}
                      /\ \A n \in DOMAIN functions : functions[n].Metadata.ResourceVersion = 1
               /\ (args[p].force \/ ~shared) => outcome[p] # UpdateGuardMsg

\* The package object that process p wrote, and the status that its call of
\* updatePackage decided on.
WroteObject(p) ==
    [updatePackageObject(pkg[p], call[p].envName, call[p].envNamespace,
                         call[p].srcArchiveFiles, call[p].deployArchiveFiles,
                         call[p].buildcmd, call[p].forceRebuild, call[p].noZip)
        EXCEPT !.Metadata.ResourceVersion = newPkgMeta[p].ResourceVersion]

StatusComputed(p) ==
    IF call[p].forceRebuild
       \/ (Len(call[p].deployArchiveFiles) = 0
           /\ (Len(call[p].envName) > 0 \/ Len(call[p].envNamespace) > 0
               \/ Len(call[p].buildcmd) > 0 \/ Len(call[p].srcArchiveFiles) > 0))
    THEN [BuildStatus |-> BuildStatusPending, BuildLog |-> ""]
    ELSE pkg[p].Status

\* Processes p and q run update or rebuild and read the same revision of the
\* same package.
SameRead(p, q) ==
    /\ p # q
    /\ cmd[p] \in {"update", "rebuild"} /\ cmd[q] \in {"update", "rebuild"}
    /\ pkg[p] # NoPackage /\ pkg[p] = pkg[q]

\* The outcomes of an update or rebuild that ends before its package write.
EndedBeforeWrite ==
    {UpdateGuardMsg, "Package is not in failed state.", "Error finding any files"}

\* C13: when two operations (update or rebuild) on the same package both read
\* the same revision, at most one of their package writes is accepted; the
\* other ends with the conflict error without a second attempt, and the
\* accepted write stays in the store.
C13_AtMostOneWriteAccepted ==
    \A p, q \in Procs :
        (SameRead(p, q) /\ Persisted(p)) =>
            /\ ~Persisted(q)
            /\ Stored(p) = WroteObject(p)
            /\ (pc[q] = "done" /\ outcome[q] \notin EndedBeforeWrite) =>
                   outcome[q] = "update package"

C13_Witness ==
    \E p, q \in Procs :
        /\ SameRead(p, q) /\ Persisted(p)
        /\ pc[q] = "done" /\ outcome[q] = "update package"
        /\ Stored(p) = WroteObject(p)
        /\ Stored(p) # pkg[p]

\* C14: no function write of the fan-out of pkgUpdate happens before the
\* store has acknowledged the package write, and every resourceVersion
\* written into a function's packageRef is that of a committed revision of
\* the updated package.
C14_FanoutAfterCommit ==
    [][\A n \in DOMAIN functions :
           (n \in DOMAIN functions' /\ functions'[n] # functions[n]) =>
               \E p \in Procs :
                   /\ cmd[p] = "update" /\ Persisted(p)
                   /\ functions'[n].Package.ResourceVersion = newPkgMeta[p].ResourceVersion
                   /\ <<pkg[p].Metadata.Namespace, pkg[p].Metadata.Name,
                        functions'[n].Package.ResourceVersion>> \in pkgRevisions]_vars

C14_Witness ==
    \E p \in Procs, n \in DOMAIN functions :
        /\ cmd[p] = "update" /\ Persisted(p)
        /\ functions[n].Package.ResourceVersion = newPkgMeta[p].ResourceVersion
        /\ functions[n].Metadata.ResourceVersion > newPkgMeta[p].ResourceVersion
        /\ <<"default", "p1", functions[n].Package.ResourceVersion>> \in pkgRevisions

\* No other process wrote the package after process p did.
LastWriter(p) ==
    \A q \in Procs \ {p} : newPkgMeta[q].ResourceVersion < newPkgMeta[p].ResourceVersion

\* C15: if a function write fails during the fan-out of pkgUpdate, the
\* operation ends in a failure and the package update is not rolled back:
\* the failing step leaves the package alone, so the package keeps the spec,
\* status and resourceVersion that the update wrote.
C15_NoRollbackOnFanoutFailure ==
    /\ [](\A p \in Procs :
              outcome[p] = "update function" =>
                  /\ pc[p] = "done" /\ Persisted(p)
                  /\ <<pkg[p].Metadata.Namespace, pkg[p].Metadata.Name,
                       newPkgMeta[p].ResourceVersion>> \in pkgRevisions
                  /\ LastWriter(p) => Stored(p) = WroteObject(p))
    /\ [][\A p \in Procs :
              (outcome'[p] = "update function" /\ outcome[p] # "update function") =>
                  packages' = packages]_vars

C15_Witness ==
    \E p \in Procs :
        /\ outcome[p] = "update function" /\ pc[p] = "done"
        /\ Stored(p) = WroteObject(p)
        /\ Stored(p).Metadata.ResourceVersion # pkg[p].Metadata.ResourceVersion
        /\ Stored(p).Spec.BuildCommand = "b1" /\ pkg[p].Spec.BuildCommand # "b1"

\* C16: when the fan-out of pkgUpdate ends with referencing functions that do
\* not carry the new resourceVersion, each of them is identified to the
\* caller as failed. The one failure the operation reports is that of the
\* function whose write failed, the head of what is left of fnList.
C16_UnsyncedFunctionsReported ==
    \A p \in Procs :
        (pc[p] = "done" /\ outcome[p] = "update function") =>
            \A i \in 1..Len(fnList[p]) :
                LET n == fnList[p][i].Metadata.Name IN
                functions[n].Package.ResourceVersion # newPkgMeta[p].ResourceVersion =>
                    i = 1

\* C17: the initial buildStatus of a package made by createPackage is
\* Pending whenever a source archive is given; Succeeded when only a
\* deployment archive is given and the package is created in the store; None
\* when only a deployment archive is given and the package is only saved as
\* a spec.
C17_InitialBuildStatus ==
    \A p \in Procs :
        (cmd[p] = "create" /\ outcome[p] = "ok") =>
            LET c == call[p]
                made == IF Len(c.specFile) > 0
                        THEN {specs[i].pkg : i \in {j \in 1..Len(specs) :
                                 specs[j].kind = "Package"
                                 /\ specs[j].pkg.Metadata = newPkgMeta[p]}}
                        ELSE {packages[<<newPkgMeta[p].Namespace, newPkgMeta[p].Name>>]}
            IN /\ made # {}
               /\ \A m \in made :
                   /\ Len(c.srcArchiveFiles) > 0 => StatusOf(m) = BuildStatusPending
                   /\ (Len(c.srcArchiveFiles) = 0 /\ Len(c.deployArchiveFiles) > 0
                       /\ Len(c.specFile) = 0) => StatusOf(m) = BuildStatusSucceeded
                   /\ (Len(c.srcArchiveFiles) = 0 /\ Len(c.deployArchiveFiles) > 0
                       /\ Len(c.specFile) > 0) => StatusOf(m) = BuildStatusNone

C17_Witness ==
    \E p, q \in Procs :
        /\ cmd[p] = "create" /\ outcome[p] = "ok"
        /\ Len(call[p].srcArchiveFiles) = 0 /\ Len(call[p].deployArchiveFiles) > 0
        /\ Len(call[p].specFile) = 0
        /\ StatusOf(packages[<<newPkgMeta[p].Namespace, newPkgMeta[p].Name>>])
               = BuildStatusSucceeded
        /\ cmd[q] = "create" /\ outcome[q] = "ok"
        /\ Len(call[q].srcArchiveFiles) = 0 /\ Len(call[q].deployArchiveFiles) > 0
        /\ Len(call[q].specFile) > 0
        /\ StatusOf(pkg[q]) = BuildStatusNone
        /\ \E i \in 1..Len(specs) : specs[i].kind = "Package" /\ specs[i].pkg = pkg[q]

\* The keys of the packages that process p listed when its sweep started.
Listed(p) == {KeyOf(pkgList[p][i]) : i \in 1..Len(pkgList[p])}

\* C18: after an orphan sweep of a namespace that completes without error and
\* without concurrent changes, the packages remaining in the namespace are
\* exactly those that had at least one referencing function when the sweep
\* started.
C18_SweepKeepsExactlyReferenced ==
    \A p \in Procs :
        (pc[p] = "done" /\ cmd[p] = "delete" /\ args[p].orphan /\ Len(args[p].name) = 0
         /\ outcome[p] = "ok" /\ Alone(p)) =>
            {k \in DOMAIN packages : k[1] = args[p].pkgNamespace}
                = {k \in Listed(p) : Referencing(functions, k[1], k[2]) # {}}

\* C19: when a package deletion fails during the orphan sweep, the sweep ends
\* at once with that error: no call of deletePackage follows the failed one,
\* no package later in the list is touched, and the orphans deleted before
\* stay deleted.
C19_SweepStopsAtFirstError ==
    \A p \in Procs :
        (cmd[p] = "delete" /\ args[p].orphan) =>
            LET n == Len(deleteCalls[p]) IN
            /\ \A i \in 1..(n - 1) : deleteCalls[p][i].ok
            /\ \A i \in 1..n : deleteCalls[p][i].ok => deleteCalls[p][i].key \notin DOMAIN packages
            /\ (n > 0 /\ ~deleteCalls[p][n].ok) =>
                   /\ pc[p] = "done"
                   /\ outcome[p] = "error deleting orphan packages"
                   /\ deleteCalls[p][n].key = KeyOf(pkgList[p][pkgIdx[p]])
                   /\ \A j \in (pkgIdx[p] + 1)..Len(pkgList[p]) :
                          \A i \in 1..n : deleteCalls[p][i].key # KeyOf(pkgList[p][j])

C19_Witness ==
    \E p \in Procs :
        /\ outcome[p] = "error deleting orphan packages"
        /\ Len(deleteCalls[p]) = 2
        /\ deleteCalls[p][1].ok /\ ~deleteCalls[p][2].ok
        /\ deleteCalls[p][1].key \notin DOMAIN packages
        /\ pkgIdx[p] < Len(pkgList[p])
        /\ KeyOf(pkgList[p][Len(pkgList[p])]) \in DOMAIN packages
        /\ Referencing(functions, "default", "p3") = {}

\* C20: a package update is visible completely or not at all: a stored
\* revision written by an update carries the update's spec together with the
\* status the update decided on, and an update that fails leaves the stored
\* packages as they were.
C20_UpdateAllOrNothing ==
    /\ [](\A p \in Procs :
              (Persisted(p)
               /\ Stored(p).Metadata.ResourceVersion = newPkgMeta[p].ResourceVersion) =>
                  /\ Stored(p).Spec = WroteObject(p).Spec
                  /\ Stored(p).Status = StatusComputed(p))
    /\ [][\A p \in Procs :
              (outcome[p] = ""
               /\ outcome'[p] \in {"update package", "Error finding any files"}) =>
                  packages' = packages]_vars

C20_Witness ==
    \E p, q \in Procs :
        /\ Persisted(p) /\ Stored(p).Metadata.ResourceVersion = newPkgMeta[p].ResourceVersion
        /\ Stored(p).Spec.BuildCommand = "b1" /\ pkg[p].Spec.BuildCommand # "b1"
        /\ StatusOf(pkg[p]) = BuildStatusSucceeded
        /\ StatusOf(Stored(p)) = BuildStatusPending
        /\ outcome[q] = "update package" /\ ~Persisted(q)


\* ------------------------------------------------------------- C21 .. C30

\* The names of the functions in a list of function records.
NamesOf(fns) == {fns[i].Metadata.Name : i \in 1..Len(fns)}

\* C21: getFunctionsByPackage(pkgName, pkgNamespace) returns exactly the
\* functions whose packageRef name and namespace both equal the package's:
\* when pkgUpdate has listed the functions of the package it read, the list
\* holds every function that references that package and no other function.
C21_ExactlyReferencingFunctions ==
    \A p \in Procs :
        (pc[p] = "updatePackage" /\ cmd[p] = "update") =>
            NamesOf(fnList[p]) =
                Referencing(functions, pkg[p].Metadata.Namespace, pkg[p].Metadata.Name)

\* Process p has created a package in the store (no spec file).
CreatedInStore(p) ==
    /\ pc[p] = "done" /\ cmd[p] = "create" /\ outcome[p] = "ok"
    /\ Len(call[p].specFile) = 0

\* Archive ar is what the claim says UploadArchive makes of file.
StoredBySize(file, ar) ==
    /\ ar.Type = ArchiveTypeLiteral <=> file.size < ArchiveLiteralSizeLimit
    /\ file.size < ArchiveLiteralSizeLimit =>
           ar.Literal = file.data /\ file.data \notin uploads
    /\ file.size >= ArchiveLiteralSizeLimit =>
           /\ ar.Type = ArchiveTypeUrl
           /\ file.data \in uploads
           /\ StoredUnder(ar.URL) = file.data
           /\ ar.Checksum = <<"sha256">> \o file.data

\* C22: UploadArchive returns a Literal archive holding the file's bytes,
\* and uploads nothing, if and only if the file is strictly smaller than
\* the literal limit; a file of the limit's size or larger is uploaded and
\* the archive is of kind URL with the checksum of that file.
C22_LiteralIffBelowLimit ==
    \A p \in Procs :
        CreatedInStore(p) =>
            /\ Len(call[p].deployArchiveFiles) > 0 =>
                   StoredBySize(makeArchiveFileIfNeeded(call[p].deployArchiveFiles, call[p].noZip),
                                pkg[p].Spec.Deployment)
            /\ Len(call[p].srcArchiveFiles) > 0 =>
                   StoredBySize(makeArchiveFileIfNeeded(call[p].srcArchiveFiles, FALSE),
                                pkg[p].Spec.Source)

\* A package was created from a deployment file of exactly the limit's size
\* and from a source file below it.
C22_Witness ==
    \E p \in Procs :
        /\ CreatedInStore(p)
        /\ Len(call[p].deployArchiveFiles) > 0 /\ Len(call[p].srcArchiveFiles) > 0
        /\ makeArchiveFileIfNeeded(call[p].deployArchiveFiles, call[p].noZip).size
               = ArchiveLiteralSizeLimit
        /\ pkg[p].Spec.Deployment.Type = ArchiveTypeUrl
        /\ pkg[p].Spec.Source.Type = ArchiveTypeLiteral

\* C23: for an input list that is a single HTTP(S) URL, the archive the
\* create path produces is exactly {kind URL, url the input, no checksum},
\* and the URL's content is neither downloaded nor uploaded.
C23_SingleUrlPassedThrough ==
    \A p \in Procs :
        (CreatedInStore(p) /\ Len(call[p].deployArchiveFiles) = 1
         /\ HasHttpPrefix(call[p].deployArchiveFiles[1])) =>
            /\ pkg[p].Spec.Deployment =
                   [Type |-> ArchiveTypeUrl, Literal |-> <<>>,
                    URL |-> <<call[p].deployArchiveFiles[1]>>, Checksum |-> <<>>]
            /\ RemoteFiles[call[p].deployArchiveFiles[1]].data \notin uploads

\* The archives that are set in a package.
ArchivesOf(x) == {x.Spec.Source, x.Spec.Deployment} \ {EmptyArchive}

\* The archives of the packages in the store, of the packages the processes
\* built, and of the packages saved to the spec file.
AllArchives ==
    UNION ({ArchivesOf(packages[k]) : k \in DOMAIN packages}
           \cup {ArchivesOf(pkg[p]) : p \in Procs}
           \cup {ArchivesOf(specs[i].pkg) : i \in {j \in 1..Len(specs) : specs[j].kind = "Package"}})

\* C24: every archive produced by UploadArchive or by createArchive in spec
\* mode, and every archive of a persisted package, has exactly one of
\* literal bytes and URL populated, the one its kind names.
C24_ExactlyOnePayload ==
    \A ar \in AllArchives :
        \/ ar.Type = ArchiveTypeLiteral /\ ar.Literal # <<>> /\ ar.URL = <<>>
        \/ ar.Type = ArchiveTypeUrl /\ ar.URL # <<>> /\ ar.Literal = <<>>

\* The store holds a new package with a literal source archive and an
\* uploaded deployment archive, and the spec file a package whose archive
\* names an upload spec.
C24_Witness ==
    /\ \E k \in DOMAIN packages :
           /\ k[2] # "p1"
           /\ packages[k].Spec.Source.Type = ArchiveTypeLiteral
           /\ packages[k].Spec.Deployment.Type = ArchiveTypeUrl
    /\ \E i \in 1..Len(specs) :
           specs[i].kind = "Package" /\ specs[i].pkg.Spec.Deployment.Type = ArchiveTypeUrl

\* Process p has fetched, with sub-command c, an archive of the package
\* that process q created from input files.
Fetched(p, q, c) ==
    /\ CreatedInStore(q)
    /\ pc[p] = "done" /\ cmd[p] = c /\ outcome[p] = "ok"
    /\ pkg[p].Metadata = newPkgMeta[q]

\* The input list names files only, and at least one.
FilesOnly(includeFiles) ==
    /\ Len(includeFiles) > 0
    /\ \A i \in 1..Len(includeFiles) : ~HasHttpPrefix(includeFiles[i])

\* The statement of C25 as given: fetchArchive on a package built from
\* input files returns content byte-identical to the original input, for
\* Literal and for URL-backed archives.
C25_FetchReturnsInput ==
    \A p, q \in Procs :
        /\ (Fetched(p, q, "getsrc") /\ FilesOnly(call[q].srcArchiveFiles)) =>
               output[p] = CatData(FindAll(call[q].srcArchiveFiles))
        /\ (Fetched(p, q, "getdeploy") /\ FilesOnly(call[q].deployArchiveFiles)) =>
               output[p] = CatData(FindAll(call[q].deployArchiveFiles))

\* The input list is one that makeArchiveFileIfNeeded uses as it is.
Verbatim(includeFiles, noZip) ==
    /\ Len(FindAll(includeFiles)) = 1
    /\ LocalFiles[FindAll(includeFiles)[1]].zip \/ noZip

\* C25 (amended): fetchArchive on a package built from input files returns
\* content byte-identical to the archive file that was stored, for Literal
\* and for URL-backed archives: the input file itself when it was used as
\* it is, otherwise the new archive built from the inputs.
C25_FetchReturnsStoredArchive ==
    \A p, q \in Procs :
        /\ (Fetched(p, q, "getsrc") /\ FilesOnly(call[q].srcArchiveFiles)) =>
               output[p] = IF Verbatim(call[q].srcArchiveFiles, FALSE)
                           THEN CatData(FindAll(call[q].srcArchiveFiles))
                           ELSE MakeArchive(FindAll(call[q].srcArchiveFiles)).data
        /\ (Fetched(p, q, "getdeploy") /\ FilesOnly(call[q].deployArchiveFiles)) =>
               output[p] = IF Verbatim(call[q].deployArchiveFiles, call[q].noZip)
                           THEN CatData(FindAll(call[q].deployArchiveFiles))
                           ELSE MakeArchive(FindAll(call[q].deployArchiveFiles)).data

\* A source archive stored as a Literal was fetched; it is a new archive.
C25_Witness ==
    \E p, q \in Procs :
        /\ Fetched(p, q, "getsrc") /\ FilesOnly(call[q].srcArchiveFiles)
        /\ pkg[p].Spec.Source.Type = ArchiveTypeLiteral
        /\ ~Verbatim(call[q].srcArchiveFiles, FALSE)
        /\ output[p] # NoOutput

\* Process p has run createPackage with a spec file to its end.
CreatedInSpecs(p) ==
    /\ pc[p] = "done" /\ cmd[p] = "create" /\ outcome[p] = "ok"
    /\ Len(call[p].specFile) > 0

\* The spec file holds exactly one upload spec for the globs, and the
\* archive refers to it by name.
RefersToTheOne(includeFiles, ar) ==
    /\ Cardinality(SameUploadSpecs(specs, includeFiles)) = 1
    /\ \A i \in SameUploadSpecs(specs, includeFiles) : ar = SpecArchive(specs[i].Name)

\* C26: with a spec file, createArchive for globs the spec directory already
\* holds reuses the name of the existing upload spec and saves nothing:
\* after any number of calls with the same globs the directory holds exactly
\* one upload spec for them and every archive returned refers to its name.
C26_OneUploadSpecPerGlobs ==
    \A p \in Procs :
        CreatedInSpecs(p) =>
            /\ Len(call[p].deployArchiveFiles) > 0 =>
                   RefersToTheOne(call[p].deployArchiveFiles, pkg[p].Spec.Deployment)
            /\ Len(call[p].srcArchiveFiles) > 0 =>
                   RefersToTheOne(call[p].srcArchiveFiles, pkg[p].Spec.Source)

\* Two invocations, each with the same globs as source and as deployment
\* files, have recorded archives for them: four calls of createArchive.
C26_Witness ==
    /\ \A p \in Procs : CreatedInSpecs(p)
    /\ \A p \in Procs : call[p].deployArchiveFiles = <<"d.zip">>
    /\ \A p \in Procs : call[p].srcArchiveFiles = <<"d.zip">>
    /\ Cardinality(SameUploadSpecs(specs, <<"d.zip">>)) = 1

\* Some input of the list is no URL and matches no file.
MatchesNothing(includeFiles) ==
    \E i \in 1..Len(includeFiles) :
        ~HasHttpPrefix(includeFiles[i]) /\ FindAllGlobs(includeFiles[i]) = <<>>

\* C27: when an input of createArchive that is no URL matches no file, the
\* operation fails before any archive is built, uploaded or recorded in the
\* spec directory, and the create that called it persists nothing: the
\* store holds the same packages as before.
C27_NoMatchFailsBeforeAnyEffect ==
    [][\A p \in Procs :
          (/\ pc[p] = "createPackage" /\ pc'[p] = "done"
           /\ \/ MatchesNothing(call[p].srcArchiveFiles)
              \/ MatchesNothing(call[p].deployArchiveFiles)) =>
              /\ outcome'[p] = "Error finding any files"
              /\ uploads' = uploads
              /\ specs' = specs
              /\ packages' = packages]_vars

\* The flag combinations the claim calls invalid.
InvalidCreate(a) ==
    \/ Len(a.env) = 0
    \/ Len(a.src) = 0 /\ Len(a.deploy) = 0

InvalidUpdate(a) ==
    \/ Len(a.name) = 0
    \/ Len(a.src) > 0 /\ Len(a.deploy) > 0
    \/ Len(a.env) = 0 /\ Len(a.src) = 0 /\ Len(a.deploy) = 0 /\ Len(a.buildcmd) = 0

ArgumentErrors ==
    {"Need --env argument.",
     "Need --src to specify source archive, or use --deploy to specify deployment archive.",
     "Need --name argument.",
     "Need either of --src or --deploy and not both arguments.",
     "Need --env or --src or --deploy or --buildcmd argument."}

\* Process p starts sub-command c in this step.
Starts(p, c) == pc[p] = "idle" /\ pc'[p] # "idle" /\ cmd'[p] = c

\* C28: pkg create without an environment or with neither source nor
\* deployment files, and pkg update without a name, with both source and
\* deployment files, or with none of environment name, source, deployment
\* and build command, are rejected before any remote call (no package is
\* read, no function listed, nothing uploaded) and change nothing.
C28_InvalidArgumentsRejected ==
    [][\A p \in Procs :
          (\/ Starts(p, "create") /\ InvalidCreate(args'[p])
           \/ Starts(p, "update") /\ InvalidUpdate(args'[p])) =>
              /\ pc'[p] = "done"
              /\ outcome'[p] \in ArgumentErrors
              /\ UNCHANGED <<store, uploads, specs, pkg, fnList, call, newPkgMeta>>]_vars

\* An update with both source and deployment files, and a name, has ended.
C28_Witness ==
    \E p \in Procs :
        /\ pc[p] = "done" /\ cmd[p] = "update"
        /\ Len(args[p].name) > 0 /\ Len(args[p].src) > 0 /\ Len(args[p].deploy) > 0
        /\ outcome[p] = "Need either of --src or --deploy and not both arguments."
        /\ pkg[p] = NoPackage

\* C29: pkgDelete with neither a package name nor the orphan flag, or with
\* both, ends in a failure reported to the caller, not in success, and
\* deletes nothing.
C29_DeleteFlagErrorSurfaced ==
    \A p \in Procs :
        (/\ pc[p] = "done" /\ cmd[p] = "delete"
         /\ \/ Len(args[p].name) = 0 /\ ~args[p].orphan
            \/ Len(args[p].name) # 0 /\ args[p].orphan) =>
            /\ outcome[p] # "ok"
            /\ deleteCalls[p] = <<>>

\* The bytes an archive stands for: its literal, or what its URL was
\* stored under.
ContentOf(ar) ==
    IF ar.Type = ArchiveTypeLiteral THEN ar.Literal ELSE StoredUnder(ar.URL)

Writes(p, c) == cmd[p] = c /\ pc[p] = "updatePackage" /\ pc'[p] # "updatePackage"

\* C31: under every interleaving of pkgRebuild with the build service,
\* pkgRebuild never overwrites a status other than failed: when the status
\* of the package is no longer failed at the moment of rebuild's write, the
\* write is rejected and the package stays as the store holds it.
C31_RebuildOverwritesOnlyFailed ==
    [][\A p \in Procs :
          (Writes(p, "rebuild")
           /\ PackageGet(pkg[p].Metadata.Namespace, pkg[p].Metadata.Name).Status.BuildStatus
                  # BuildStatusFailed) =>
              /\ packages' = packages
              /\ outcome'[p] = "update package"]_vars

\* A rebuild that read a failed package was rejected while the build
\* service was running the build another rebuild had asked for.
C31_Witness ==
    \E p \in Procs :
        /\ pc[p] = "done" /\ cmd[p] = "rebuild" /\ outcome[p] = "update package"
        /\ pkg[p].Status.BuildStatus = BuildStatusFailed
        /\ PackageGet("default", "p1").Status.BuildStatus = BuildStatusRunning

\* C32: when pkgUpdate completes successfully, every function that
\* references the package at that moment carries the package's new
\* resourceVersion, also when such functions were created between
\* pkgUpdate's listing of the functions and its fan-out.
C32_FunctionsCreatedMeanwhileSynced ==
    \A p \in Procs :
        (pc[p] = "done" /\ cmd[p] = "update" /\ outcome[p] = "ok") =>
            \A n \in Referencing(functions, newPkgMeta[p].Namespace, newPkgMeta[p].Name) :
                functions[n].Package.ResourceVersion
                    = PackageGet(newPkgMeta[p].Namespace, newPkgMeta[p].Name).Metadata.ResourceVersion

\* C33: a pkgDelete without force and the orphan sweep never remove a
\* package that a function references at the moment of the deletion, also
\* when functions referencing the package are created while they run.
C33_GuardedDeleteLeavesNoDanglingFunction ==
    [][\A p \in Procs :
          (pc[p] = "deletePackage" /\ pc'[p] # "deletePackage" /\ ~args[p].force) =>
              \A key \in DOMAIN packages \ DOMAIN packages' :
                  Referencing(functions, key[1], key[2]) = {}]_vars

\* This step is a step of a CLI process, not of the build service or of
\* another client of the store.
CliStep == \E p \in Procs : pc'[p] # pc[p]

\* The packages this step creates or writes.
WrittenKeys ==
    {k \in DOMAIN packages' : k \notin DOMAIN packages \/ packages'[k] # packages[k]}

OwesBuild(p) ==
    \/ Len(call[p].envName) > 0 \/ Len(call[p].envNamespace) > 0
    \/ Len(call[p].buildcmd) > 0 \/ call[p].forceRebuild

Accepted(p) ==
    /\ pc[p] = "updatePackage" /\ pc'[p] # "updatePackage"
    /\ packages'[KeyOf(pkg[p])] # packages[KeyOf(pkg[p])]

\* The call of updatePackage names a rebuild trigger.
Trigger(c) ==
    \/ Len(c.envName) > 0 \/ Len(c.envNamespace) > 0
    \/ Len(c.buildcmd) > 0 \/ Len(c.srcArchiveFiles) > 0

PendingNoLog == [BuildStatus |-> BuildStatusPending, BuildLog |-> ""]

\* The statement of C35 as given: updatePackage leaves buildStatus and
\* buildLog as read when there is no trigger and no force, or when a
\* deployment archive was supplied; otherwise it moves the package to
\* pending and the stored buildLog is empty.
C35_StatusReplacedOrLeft ==
    [][\A p \in Procs :
          Accepted(p) =>
              IF \/ ~Trigger(call[p]) /\ ~call[p].forceRebuild
                 \/ Len(call[p].deployArchiveFiles) > 0
              THEN packages'[KeyOf(pkg[p])].Status = pkg[p].Status
              ELSE packages'[KeyOf(pkg[p])].Status = PendingNoLog]_vars

\* C35 (amended): updatePackage leaves buildStatus and buildLog as read
\* when there is no force and either no trigger or a deployment archive
\* was supplied; otherwise it moves the package to pending, replacing the
\* whole status record, and the stored buildLog is empty.
C35_StatusReplacedOrLeftUnlessForced ==
    [][\A p \in Procs :
          Accepted(p) =>
              IF /\ ~call[p].forceRebuild
                 /\ ~Trigger(call[p]) \/ Len(call[p].deployArchiveFiles) > 0
              THEN packages'[KeyOf(pkg[p])].Status = pkg[p].Status
              ELSE packages'[KeyOf(pkg[p])].Status = PendingNoLog]_vars

\* A package read with a build log was moved to pending and its log is
\* empty in the store.
C35_Witness ==
    \E p \in Procs :
        /\ pc[p] = "done" /\ outcome[p] = "ok"
        /\ pkg[p].Status.BuildLog # ""
        /\ packages[KeyOf(pkg[p])].Metadata.ResourceVersion = newPkgMeta[p].ResourceVersion
        /\ packages[KeyOf(pkg[p])].Status = PendingNoLog

\* The build status of the package stored under k changes in this step.
StatusMoves(k) ==
    /\ k \in DOMAIN packages /\ k \in DOMAIN packages'
    /\ packages'[k].Status.BuildStatus # packages[k].Status.BuildStatus

\* C36: no step of a command of this subsystem creates a package with the
\* build status running or failed; on a package that exists already the
\* only status such a step newly stores is pending (a write that leaves the
\* status alone stores the value it read); and every move of an existing
\* package into running, succeeded or failed is a step of the build service.
C36_OnlyPendingNewlyWritten ==
    [][(CliStep =>
            \A k \in WrittenKeys :
                /\ k \notin DOMAIN packages =>
                       packages'[k].Status.BuildStatus
                           \notin {BuildStatusRunning, BuildStatusFailed}
                /\ StatusMoves(k) =>
                       packages'[k].Status.BuildStatus = BuildStatusPending)
       /\ (\A key \in DOMAIN packages :
               (/\ StatusMoves(key)
                /\ packages'[key].Status.BuildStatus \in
                       {BuildStatusRunning, BuildStatusSucceeded, BuildStatusFailed})
               => (~CliStep /\ (BuildStart(key) \/ BuildFinish(key))))]_vars

\* An update of a package whose build had failed was stored, and the package
\* is pending with the revision the update returned.
C36_Witness ==
    \E p \in Procs :
        /\ pc[p] = "done" /\ cmd[p] = "update" /\ outcome[p] = "ok"
        /\ pkg[p].Status.BuildStatus = BuildStatusFailed
        /\ packages[KeyOf(pkg[p])].Status.BuildStatus = BuildStatusPending
        /\ packages[KeyOf(pkg[p])].Metadata.ResourceVersion = newPkgMeta[p].ResourceVersion

\* Process p ran getsrc or getdeploy, found the package, and the archive it
\* asked for is unset.
FetchedUnset(p) ==
    /\ pc[p] = "done" /\ cmd[p] \in {"getsrc", "getdeploy"}
    /\ outcome[p] \notin {"Need name of package, use --name", "error: get package"}
    /\ LET archive == IF cmd[p] = "getsrc" THEN pkg[p].Spec.Source
                      ELSE pkg[p].Spec.Deployment
       IN archive.Type \notin {ArchiveTypeLiteral, ArchiveTypeUrl}

\* C37: a getsrc or getdeploy of a package whose requested archive is unset
\* ends with an error or with an empty result, and never by reading from a
\* stream that was never set.
C37_UnsetArchiveEndsCleanly ==
    \A p \in Procs :
        FetchedUnset(p) =>
            /\ outcome[p] # "panic: nil reader"
            /\ outcome[p] = "ok" => output[p] = <<>>

====
